---- MODULE Spec2Model ----
(***************************************************************************)
(* Model of tls-cert-monitor: the cache (cache.py), the metrics registry   *)
(* (metrics.py), the certificate scanner (scanner.py) and the hot-reload   *)
(* coordinator (hot_reload.py).                                            *)
(*                                                                         *)
(* SpecCache explores the CacheManager operations on their own; Spec      *)
(* explores the scanner, the metrics and the hot-reload coordinator       *)
(* running on the one asyncio event loop, using the same cache operators.  *)
(***************************************************************************)
EXTENDS Integers, Sequences, FiniteSets, TLC

(***************************************************************************)
(* Bounds of the model                                                     *)
(***************************************************************************)
\* First value of the clock (time.time()); persisted entries are older.
StartTime == 2
\* The clock stops advancing here.
MaxTime == 4
\* CacheManager.get is not called once _access_count has reached this.
MaxAccesses == 2
\* config.cache_max_size of the modelled configuration, in bytes.
max_size == 30
\* config.cache_ttl_seconds of the modelled configuration, in clock ticks.
default_ttl == 1
\* Serialized size of one certificate record, in the bytes max_size counts.
cert_record_size == 8
\* The last tick of the clock of the running system.
LastTick == 3
\* Changes the environment makes to the file tree.
MaxFsOps == 2
\* GET /scan requests served.
MaxHttpScans == 1
\* Calls of save_to_disk and close.
MaxSaves == 1
\* Times the configuration file is rewritten.
MaxConfigWrites == 1
\* Times the configuration file is written, rewrites with the same content
\* included.
MaxConfigSaves == 2
\* The last clock tick of the runs with configuration reloads.
ConfigLastTick == 5

(***************************************************************************)
(* Values                                                                  *)
(***************************************************************************)
\* Python's None.
None == [none |-> TRUE]

\* A string of n copies of ch.
Str(ch, n) == [i \in 1..n |-> ch]

\* The documents handed to CacheManager.set: {"data": "<string>"}; json is
\* FALSE for a document holding an object json.dumps cannot encode.
SmallValue == [data |-> Str("x", 0), json |-> TRUE]
MidValue == [data |-> Str("x", 4), json |-> TRUE]
HugeValue == [data |-> Str("x", 20), json |-> TRUE]
OpaqueValue == [data |-> Str("o", 1), json |-> FALSE]
Values == {SmallValue, MidValue, HugeValue, OpaqueValue}

Keys == {"k1", "k2"}

\* The ttl argument of set: <<>> is None (use the default), <<n>> is n.
TtlArgs == {<<>>, <<0>>}

\* json.dumps(value) raises TypeError for a document holding an object it
\* cannot encode; certificate records are plain dicts of strings and numbers.
Serializable(value) == IF "json" \in DOMAIN value THEN value.json ELSE TRUE

\* len(json.dumps(value).encode("utf-8")): for {"data": "<ascii string>"} the
\* 12 bytes of {"data": ""} plus one byte per character; for a certificate
\* record cert_record_size bytes.
SerializedSize(value) ==
    IF "data" \in DOMAIN value THEN 12 + Len(value.data) ELSE cert_record_size

(***************************************************************************)
(* CacheEntry                                                              *)
(***************************************************************************)
\* is_expired with the boundary instant counted as expired.
is_expired_at_ttl(entry, t) == t - entry.timestamp >= entry.ttl

is_expired(entry, t) == t - entry.timestamp > entry.ttl

update_access(entry, t) ==
    [entry EXCEPT !.access_count = @ + 1, !.last_access = t]

\* CacheEntry(value=..., timestamp=..., ttl=..., size=...) keyed by key.
NewEntry(key, value, t, ttl, size) ==
    [key |-> key, value |-> value, timestamp |-> t, ttl |-> ttl,
     size |-> size, access_count |-> 0, last_access |-> 0]

(***************************************************************************)
(* CacheManager: the dict _memory_cache is a sequence of entries in        *)
(* insertion order, as Python dicts iterate.                               *)
(***************************************************************************)
EmptyCache ==
    [memory_cache |-> <<>>, current_size |-> 0,
     access_count |-> 0, hit_count |-> 0]

HasKey(entries, key) == \E i \in 1..Len(entries) : entries[i].key = key

Lookup(entries, key) ==
    entries[CHOOSE i \in 1..Len(entries) : entries[i].key = key]

RemoveKey(entries, key) == SelectSeq(entries, LAMBDA e : e.key # key)

\* d[key] = entry: an existing key keeps its position, a new one is appended.
PutEntry(entries, entry) ==
    IF HasKey(entries, entry.key)
    THEN [i \in 1..Len(entries) |->
            IF entries[i].key = entry.key THEN entry ELSE entries[i]]
    ELSE Append(entries, entry)

RECURSIVE SumSizes(_)
SumSizes(entries) ==
    IF entries = <<>> THEN 0
    ELSE Head(entries).size + SumSizes(Tail(entries))

\* get that forgets to subtract the size of the expired entry it drops.
get_keeps_size(c, key, t) ==
    LET counted == [c EXCEPT !.access_count = @ + 1] IN
    IF ~HasKey(c.memory_cache, key)
    THEN [cache |-> counted, value |-> None]
    ELSE LET entry == Lookup(c.memory_cache, key) IN
         IF is_expired(entry, t)
         THEN [cache |-> [counted EXCEPT !.memory_cache = RemoveKey(@, key)],
               value |-> None]
         ELSE [cache |-> [counted EXCEPT
                             !.memory_cache = PutEntry(@, update_access(entry, t)),
                             !.hit_count = @ + 1],
               value |-> entry.value]

\* get that counts a hit before it looks at the expiry of the entry.
get_hit_on_expired(c, key, t) ==
    LET counted == [c EXCEPT !.access_count = @ + 1] IN
    IF ~HasKey(c.memory_cache, key)
    THEN [cache |-> counted, value |-> None]
    ELSE LET entry == Lookup(c.memory_cache, key) IN
         IF is_expired(entry, t)
         THEN [cache |-> [counted EXCEPT
                             !.memory_cache = RemoveKey(@, key),
                             !.current_size = @ - entry.size,
                             !.hit_count = @ + 1],
               value |-> None]
         ELSE [cache |-> [counted EXCEPT
                             !.memory_cache = PutEntry(@, update_access(entry, t)),
                             !.hit_count = @ + 1],
               value |-> entry.value]

\* CacheManager.get: returns the new cache state and the returned value.
get(c, key, t) ==
    LET counted == [c EXCEPT !.access_count = @ + 1] IN
    IF ~HasKey(c.memory_cache, key)
    THEN [cache |-> counted, value |-> None]
    ELSE LET entry == Lookup(c.memory_cache, key) IN
         IF is_expired(entry, t)
         THEN [cache |-> [counted EXCEPT
                             !.memory_cache = RemoveKey(@, key),
                             !.current_size = @ - entry.size],
               value |-> None]
         ELSE [cache |-> [counted EXCEPT
                             !.memory_cache = PutEntry(@, update_access(entry, t)),
                             !.hit_count = @ + 1],
               value |-> entry.value]

\* sorted(items, key=last_access): stable insertion of one entry.
RECURSIVE InsertByAccess(_, _)
InsertByAccess(sorted, entry) ==
    IF sorted = <<>> THEN <<entry>>
    ELSE IF Head(sorted).last_access <= entry.last_access
         THEN <<Head(sorted)>> \o InsertByAccess(Tail(sorted), entry)
         ELSE <<entry>> \o sorted

\* sorted() left out: the entries in insertion order.
entries_in_insertion_order(entries) == entries

RECURSIVE entries_by_access(_)
entries_by_access(entries) ==
    IF entries = <<>> THEN <<>>
    ELSE InsertByAccess(entries_by_access(SubSeq(entries, 1, Len(entries) - 1)),
                        entries[Len(entries)])

\* The eviction loop of _ensure_space over the sorted entries: the keys evicted.
RECURSIVE EvictLoop(_, _, _, _)
EvictLoop(sorted, current, needed, freed) ==
    IF sorted = <<>> \/ current + needed - freed <= max_size
    THEN {}
    ELSE {Head(sorted).key}
         \cup EvictLoop(Tail(sorted), current, needed, freed + Head(sorted).size)

\* CacheManager._ensure_space
ensure_space(c, needed_size) ==
    IF c.current_size + needed_size <= max_size
    THEN c
    ELSE LET evicted == EvictLoop(entries_by_access(c.memory_cache),
                                  c.current_size, needed_size, 0)
             kept == SelectSeq(c.memory_cache, LAMBDA e : e.key \notin evicted)
             freed_space == SumSizes(c.memory_cache) - SumSizes(kept)
         IN [c EXCEPT !.memory_cache = kept,
                      !.current_size = @ - freed_space]

\* CacheManager.set
set(c, key, value, ttl, t) ==
    IF ~Serializable(value)
    THEN c
    ELSE LET entry_ttl == IF ttl = <<>> THEN default_ttl ELSE ttl[1]
             size == SerializedSize(value)
             spaced == ensure_space(c, size)
             entry == NewEntry(key, value, t, entry_ttl, size)
             old_size == IF HasKey(spaced.memory_cache, key)
                         THEN Lookup(spaced.memory_cache, key).size ELSE 0
         IN [spaced EXCEPT !.memory_cache = PutEntry(@, entry),
                           !.current_size = @ - old_size + size]

\* CacheManager.delete: the new cache state and the returned flag.
delete(c, key) ==
    IF HasKey(c.memory_cache, key)
    THEN [cache |-> [c EXCEPT !.memory_cache = RemoveKey(@, key),
                              !.current_size = @ - Lookup(c.memory_cache, key).size],
          value |-> TRUE]
    ELSE [cache |-> c, value |-> FALSE]

\* CacheManager.clear
clear(c) == [c EXCEPT !.memory_cache = <<>>, !.current_size = 0]

\* CacheManager.cleanup_expired: the new cache state and the count removed.
cleanup_expired(c, t) ==
    LET kept == SelectSeq(c.memory_cache, LAMBDA e : ~(t - e.timestamp > e.ttl))
    IN [cache |-> [c EXCEPT !.memory_cache = kept,
                            !.current_size = @ - (SumSizes(c.memory_cache) - SumSizes(kept))],
        value |-> Len(c.memory_cache) - Len(kept)]

(***************************************************************************)
(* Persistence: cache.json                                                 *)
(***************************************************************************)
NoFile == [missing |-> TRUE]
\* A file json.load cannot parse.
GarbageFile == [parseable |-> FALSE]
\* An entry of the file CacheEntry(**entry_data) cannot rebuild.
BadEntry == [malformed |-> TRUE]

IsBadEntry(e) == "malformed" \in DOMAIN e

\* The restore loop of _load_persistent_cache over the file's entries;
\* failed is TRUE when an entry raised and the loop was left.
RECURSIVE LoadEntries(_, _, _)
LoadEntries(c, entries, t) ==
    IF entries = <<>> THEN [cache |-> c, failed |-> FALSE]
    ELSE IF IsBadEntry(Head(entries)) THEN [cache |-> c, failed |-> TRUE]
    ELSE IF is_expired(Head(entries), t) THEN LoadEntries(c, Tail(entries), t)
    ELSE LoadEntries([c EXCEPT !.memory_cache = PutEntry(@, Head(entries)),
                               !.current_size = @ + Head(entries).size],
                     Tail(entries), t)

\* CacheManager._load_persistent_cache: the new cache state, and whether
\* the except branch (unlink of the file) was taken.
load_persistent_cache(c, file, t) ==
    IF file = NoFile THEN [cache |-> c, failed |-> FALSE]
    ELSE IF ~file.parseable THEN [cache |-> c, failed |-> TRUE]
    ELSE LET loaded == LoadEntries(c, file.entries, t) IN
         IF loaded.failed THEN loaded
         ELSE [cache |-> [loaded.cache EXCEPT
                             !.access_count = file.stats.access_count,
                             !.hit_count = file.stats.hit_count],
               failed |-> FALSE]

\* asdict(entry) without the access statistics of the entry.
asdict_without_access(entry) ==
    [key |-> entry.key, value |-> entry.value, timestamp |-> entry.timestamp,
     ttl |-> entry.ttl, size |-> entry.size, access_count |-> 0, last_access |-> 0]

\* key: asdict(entry) as json.dump writes it and json.load reads it back: the
\* six fields of CacheEntry under the key; the value is a structured document
\* of strings and numbers, which JSON holds unchanged.
asdict(entry) ==
    [key |-> entry.key, value |-> entry.value, timestamp |-> entry.timestamp,
     ttl |-> entry.ttl, size |-> entry.size,
     access_count |-> entry.access_count, last_access |-> entry.last_access]

RECURSIVE DumpEntries(_, _)
DumpEntries(entries, t) ==
    IF entries = <<>> THEN <<>>
    ELSE IF is_expired(Head(entries), t) THEN DumpEntries(Tail(entries), t)
    ELSE <<asdict(Head(entries))>> \o DumpEntries(Tail(entries), t)

\* cache_data of save_to_disk, built under the lock: the entries that are not
\* expired and the two counters.
cache_data(c, t) ==
    [parseable |-> TRUE, entries |-> DumpEntries(c.memory_cache, t),
     stats |-> [access_count |-> c.access_count, hit_count |-> c.hit_count]]

\* The file save_to_disk opens for writing: cache.json itself.
save_target_in_place == "cache_file"
\* The file save_to_disk opens for writing: cache_file.with_suffix(".tmp").
save_target == "temp_file"

\* No save_to_disk call has been made.
NoSave == [pc |-> "idle", data |-> None, memory |-> None, closing |-> FALSE,
           ok |-> FALSE, n |-> 0]

\* Entries a previous run of the program left in cache.json.
LivePersisted ==
    [key |-> "k1", value |-> SmallValue, timestamp |-> StartTime - 1,
     ttl |-> default_ttl, size |-> SerializedSize(SmallValue),
     access_count |-> 0, last_access |-> 0]
StalePersisted ==
    [key |-> "k2", value |-> MidValue, timestamp |-> 0,
     ttl |-> 1, size |-> SerializedSize(MidValue),
     access_count |-> 0, last_access |-> 0]

PersistedFile(entries) ==
    [parseable |-> TRUE, entries |-> entries,
     stats |-> [access_count |-> 1, hit_count |-> 0]]

PersistedFiles ==
    {NoFile,
     PersistedFile(<<StalePersisted, LivePersisted>>),
     PersistedFile(<<LivePersisted, BadEntry>>)}

(***************************************************************************)
(* The file tree, the configuration snapshot and certificate records       *)
(***************************************************************************)
\* The certificate files the environment may create, in os.walk order.
FileOrder == <<"d1/a.pem", "d1/c.pem", "d1/e.pem", "d2/b.pem">>
Files == {FileOrder[i] : i \in 1..Len(FileOrder)}
\* The files the environment writes and removes while the monitor runs; the
\* other files are part of the tree from the start, or never exist.
Primary == {"d1/a.pem", "d2/b.pem"}

DirOf(path) == IF path = "d2/b.pem" THEN "d2" ELSE "d1"

\* A file of the tree: absent, or present with its mtime and its content
\* (a certificate with a serial, or bytes that are no certificate).
AbsentFile == [present |-> FALSE, mtime |-> 0, ok |-> FALSE, serial |-> ""]
CertFile(mtime, serial) == [present |-> TRUE, mtime |-> mtime, ok |-> TRUE, serial |-> serial]
JunkFile(mtime) == [present |-> TRUE, mtime |-> mtime, ok |-> FALSE, serial |-> ""]

\* What a write puts into a file.
Contents == {"s1", "junk"}
WrittenFile(mtime, content) ==
    IF content = "junk" THEN JunkFile(mtime) ELSE CertFile(mtime, content)

\* The certificates: s1 has a strong key and a current signature algorithm,
\* s2 a weak key and a deprecated signature algorithm.
Serials == {"s1", "s2"}

\* The configuration snapshot of the modelled deployment.
StartConfig ==
    [certificate_directories |-> <<"d1", "d2">>,
     workers |-> 1,
     scan_interval_seconds |-> 2,
     hot_reload |-> TRUE,
     p12_passwords |-> {},
     exclude_directories |-> {},
     exclude_file_patterns |-> {}]

\* Path(f).name
FileName(f) ==
    CASE f = "d1/a.pem" -> "a.pem"
      [] f = "d1/c.pem" -> "c.pem"
      [] f = "d1/e.pem" -> "e.pem"
      [] OTHER -> "b.pem"

\* re.search(pattern, name, re.IGNORECASE) for the patterns of the modelled
\* configurations.
re_search(pattern, name) ==
    \/ pattern = "pem$"
    \/ pattern = "^b" /\ name = "b.pem"

\* CacheManager.make_key("cert", path, mtime): the digest of the argument
\* tuple, modelled by the tuple itself (digest collisions are not modelled).
make_key(kind, path, mtime) == <<kind, path, mtime>>

\* The dict _extract_certificate_info builds, with the file metadata
\* _parse_certificate_file adds.
cert_data(path, file) ==
    [path |-> path, serial |-> file.serial, file_mtime |-> file.mtime,
     is_weak_key |-> file.serial = "s2",
     is_deprecated_algorithm |-> file.serial = "s2"]

(***************************************************************************)
(* MetricsCollector                                                        *)
(***************************************************************************)
NewMetrics ==
    [series |-> {},                      \* labeled series of expiration, san_count, info, issuer_code
     duplicate_names |-> {},             \* ssl_cert_duplicate_names{serial_number}
     parse_error_names |-> {},           \* ssl_cert_parse_error_names{filename,...}
     files_total |-> [d \in {"d1", "d2"} |-> 0],
     certs_parsed_total |-> 0,
     parse_errors_total |-> 0,
     duplicate_count |-> 0,
     duplicate_certificates |-> [s \in Serials |-> <<>>],
     weak_key_total |-> 0,
     deprecated_sigalg_total |-> 0,
     current_scan_parse_errors |-> 0,
     current_scan_weak_keys |-> 0,
     current_scan_deprecated_sigalgs |-> 0]

\* MetricsCollector.update_certificate_metrics
update_certificate_metrics(m, cert) ==
    [m EXCEPT !.series = @ \cup {[path |-> cert.path, serial |-> cert.serial]},
              !.duplicate_certificates[cert.serial] = Append(@, cert.path),
              !.current_scan_weak_keys = @ + (IF cert.is_weak_key THEN 1 ELSE 0),
              !.current_scan_deprecated_sigalgs =
                   @ + (IF cert.is_deprecated_algorithm THEN 1 ELSE 0)]

\* MetricsCollector.update_scan_metrics
update_scan_metrics(m, directory, files_total, parsed_total, errors_total) ==
    [m EXCEPT !.files_total[directory] = files_total,
              !.certs_parsed_total = parsed_total,
              !.parse_errors_total = m.current_scan_parse_errors,
              !.weak_key_total = m.current_scan_weak_keys,
              !.deprecated_sigalg_total = m.current_scan_deprecated_sigalgs]

\* MetricsCollector.record_parse_error
record_parse_error(m, filename) ==
    [m EXCEPT !.current_scan_parse_errors = @ + 1,
              !.parse_error_names = @ \cup {filename}]

\* MetricsCollector.update_duplicate_metrics
update_duplicate_metrics(m) ==
    LET duplicates == {s \in Serials : Len(m.duplicate_certificates[s]) > 1}
    IN [m EXCEPT !.duplicate_count = Cardinality(duplicates),
                 !.duplicate_names = @ \cup duplicates]

\* reset_scan_metrics that zeroes the gauges and keeps the accumulators.
reset_gauges_only(m) ==
    [m EXCEPT !.certs_parsed_total = 0,
              !.parse_errors_total = 0,
              !.weak_key_total = 0,
              !.deprecated_sigalg_total = 0,
              !.duplicate_count = 0]

\* MetricsCollector.reset_scan_metrics
reset_scan_metrics(m) ==
    [m EXCEPT !.duplicate_certificates = [s \in Serials |-> <<>>],
              !.current_scan_parse_errors = 0,
              !.current_scan_weak_keys = 0,
              !.current_scan_deprecated_sigalgs = 0,
              !.certs_parsed_total = 0,
              !.parse_errors_total = 0,
              !.weak_key_total = 0,
              !.deprecated_sigalg_total = 0,
              !.duplicate_count = 0]

\* MetricsCollector.reset_parse_error_metrics
reset_parse_error_metrics(m) ==
    [m EXCEPT !.current_scan_parse_errors = 0,
              !.parse_errors_total = 0,
              !.parse_error_names = {}]

\* clear_all_certificate_metrics that recreates only ssl_cert_duplicate_names.
clear_all_keeps_series(m) == [m EXCEPT !.duplicate_names = {}]

\* MetricsCollector.clear_all_certificate_metrics
clear_all_certificate_metrics(m) ==
    [m EXCEPT !.series = {}, !.duplicate_names = {}]

(***************************************************************************)
(* CertificateScanner: the local state of one scan_once call               *)
(***************************************************************************)
\* The coroutine is not inside the body of scan_once.
NoScan == [none |-> TRUE]

\* A task created for one candidate file by _scan_directory:
\* queued (waiting for the semaphore), parsing (in the executor), parsed (the
\* executor future is done), done (the task has returned or raised).
FileTask(path) ==
    [path |-> path, pc |-> "queued", key |-> <<>>, result |-> None, records |-> 0]

\* The result of a task that raised, and of a parse that raised.
Raised == [exception |-> TRUE]

IsCert(result) == "serial" \in DOMAIN result

\* CertificateScanner._find_certificate_files: the files under the directory
\* that are not under an excluded directory and match no exclude pattern.
\* os.walk reports nothing for a directory it cannot list, and an exception
\* of the walk is logged and the files found so far are returned.
find_certificate_files(directory, fs, cfg, unreadable) ==
    IF directory \in unreadable THEN <<>>
    ELSE SelectSeq(FileOrder,
                   LAMBDA f : /\ DirOf(f) = directory
                              /\ fs[f].present
                              /\ DirOf(f) \notin cfg.exclude_directories
                              /\ \A pattern \in cfg.exclude_file_patterns :
                                     ~re_search(pattern, FileName(f)))

\* The loop of _scan_directory over the gathered results: counts, and one
\* update_certificate_metrics per parsed certificate.
RECURSIVE GatherResults(_, _)
GatherResults(m, tasks) ==
    IF tasks = <<>>
    THEN [metrics |-> m, files_processed |-> 0,
          certificates_parsed |-> 0, parse_errors |-> 0]
    ELSE LET result == Head(tasks).result
             parsed == IsCert(result)
             rest == GatherResults(IF parsed THEN update_certificate_metrics(m, result)
                                   ELSE m,
                                   Tail(tasks))
         IN [rest EXCEPT !.files_processed = @ + 1,
                         !.certificates_parsed = @ + (IF parsed THEN 1 ELSE 0),
                         !.parse_errors = @ + (IF parsed THEN 0 ELSE 1)]

\* _scan_directory that publishes the totals of the directory before the
\* certificates of its files.
finish_directory_totals_first(w, cfg) ==
    LET result == GatherResults(w.metrics, w.sc.tasks)
        directory == w.sc.directories[w.sc.dir]
        parsed == SelectSeq(w.sc.tasks, LAMBDA task : IsCert(task.result))
        updates == [k \in 1..Len(parsed) |->
                      [call |-> "update_certificate_metrics", dir |-> w.sc.dir,
                       path |-> parsed[k].path]]
        totals == [call |-> "update_scan_metrics", dir |-> w.sc.dir, path |-> ""]
    IN [w EXCEPT
          !.metrics = update_scan_metrics(result.metrics, directory,
                                          result.files_processed,
                                          result.certificates_parsed,
                                          result.parse_errors),
          !.sc.calls = (@ \o <<totals>>) \o updates,
          !.sc.entries = (directory :>
                            [error |-> FALSE,
                             files_processed |-> result.files_processed,
                             certificates_parsed |-> result.certificates_parsed,
                             parse_errors |-> result.parse_errors]) @@ @,
          !.sc.total_files = @ + result.files_processed,
          !.sc.total_parsed = @ + result.certificates_parsed,
          !.sc.total_errors = @ + result.parse_errors,
          !.sc.tasks = <<>>]

\* scan_once after _scan_directory has gathered its tasks: the directory's
\* result is added to the totals and published with update_scan_metrics.
\* calls is the record of the calls made on the metrics, in their order.
finish_directory(w, cfg) ==
    LET result == GatherResults(w.metrics, w.sc.tasks)
        directory == w.sc.directories[w.sc.dir]
        parsed == SelectSeq(w.sc.tasks, LAMBDA task : IsCert(task.result))
        updates == [k \in 1..Len(parsed) |->
                      [call |-> "update_certificate_metrics", dir |-> w.sc.dir,
                       path |-> parsed[k].path]]
        totals == [call |-> "update_scan_metrics", dir |-> w.sc.dir, path |-> ""]
    IN [w EXCEPT
          !.metrics = update_scan_metrics(result.metrics, directory,
                                          result.files_processed,
                                          result.certificates_parsed,
                                          result.parse_errors),
          !.sc.calls = (@ \o updates) \o <<totals>>,
          !.sc.entries = (directory :>
                            [error |-> FALSE,
                             files_processed |-> result.files_processed,
                             certificates_parsed |-> result.certificates_parsed,
                             parse_errors |-> result.parse_errors]) @@ @,
          !.sc.total_files = @ + result.files_processed,
          !.sc.total_parsed = @ + result.certificates_parsed,
          !.sc.total_errors = @ + result.parse_errors,
          !.sc.tasks = <<>>]

\* The for loop of scan_once from directory i on, up to the next await that
\* suspends: a missing directory gets an entry with error set and is counted
\* as one error, a directory without
\* candidate files is finished at once, a directory with candidates gets one
\* task per file; past the last directory the scan is finished (dir = 0).
\* The loop iterates over the list the configuration held when it began.
RECURSIVE scan_from(_, _, _, _, _, _)
scan_from(w, i, cfg, fs, dirs_on_disk, unreadable) ==
    IF i > Len(w.sc.directories)
    THEN [w EXCEPT !.sc.dir = 0]
    ELSE IF w.sc.directories[i] \notin dirs_on_disk
    THEN scan_from([w EXCEPT
                      !.sc.total_errors = @ + 1,
                      !.sc.entries = (w.sc.directories[i] :>
                                        [error |-> TRUE, files_processed |-> 0,
                                         certificates_parsed |-> 0,
                                         parse_errors |-> 1]) @@ @],
                   i + 1, cfg, fs, dirs_on_disk, unreadable)
    ELSE LET files == find_certificate_files(w.sc.directories[i], fs, cfg,
                                             unreadable) IN
         IF files = <<>>
         THEN scan_from(finish_directory([w EXCEPT !.sc.dir = i], cfg),
                        i + 1, cfg, fs, dirs_on_disk, unreadable)
         ELSE [w EXCEPT !.sc.dir = i,
                        !.sc.semaphore = cfg.workers,
                        !.sc.tasks = [k \in 1..Len(files) |-> FileTask(files[k])]]

\* scan_once from the acquisition of _scan_lock to its first suspension;
\* snapshot records the configuration self.config referred to at that time.
begin_scan(w, cfg, fs, dirs_on_disk, unreadable) ==
    scan_from([w EXCEPT !.metrics = reset_scan_metrics(@),
                        !.sc = [dir |-> 0, tasks |-> <<>>, total_files |-> 0,
                                total_parsed |-> 0, total_errors |-> 0,
                                directories |-> cfg.certificate_directories,
                                entries |-> <<>>, snapshot |-> cfg, semaphore |-> 0,
                                calls |-> <<[call |-> "reset_scan_metrics",
                                             dir |-> 0, path |-> ""]>>]],
              1, cfg, fs, dirs_on_disk, unreadable)

\* scan_once resumed by the gather of the current directory.
resume_scan(w, cfg, fs, dirs_on_disk, unreadable) ==
    scan_from(finish_directory(w, cfg), w.sc.dir + 1, cfg, fs, dirs_on_disk,
              unreadable)

\* The summary scan_once returns.
summary(sc, cfg) ==
    [total_files |-> sc.total_files, total_parsed |-> sc.total_parsed,
     total_errors |-> sc.total_errors,
     directories_scanned |-> Len(cfg.certificate_directories)]

\* Tasks that hold the semaphore while the executor runs only.
InFlightInExecutor(tasks) ==
    Cardinality({k \in 1..Len(tasks) : tasks[k].pc = "parsing"})

\* Tasks holding the semaphore: from the cache lookup to the return.
InFlight(tasks) ==
    Cardinality({k \in 1..Len(tasks) : tasks[k].pc \in {"parsing", "parsed"}})

\* _process_certificate_file from the semaphore to the executor: the stat
\* for the key (which raises when the file is gone) and the cache lookup.
start_file(w, k, fs, t) ==
    LET task == w.sc.tasks[k]
        file == fs[task.path]
    IN IF ~file.present
       THEN [w EXCEPT !.sc.tasks[k].pc = "done", !.sc.tasks[k].result = Raised]
       ELSE LET cache_key == make_key("cert", task.path, file.mtime)
                looked == get(w.cache, cache_key, t)
            IN IF looked.value # None
               THEN [w EXCEPT !.cache = looked.cache,
                              !.sc.tasks[k].pc = "done",
                              !.sc.tasks[k].key = cache_key,
                              !.sc.tasks[k].result = looked.value]
               ELSE [w EXCEPT !.cache = looked.cache,
                              !.sc.tasks[k].pc = "parsing",
                              !.sc.tasks[k].key = cache_key]

\* _parse_certificate_file on a worker thread: the file is read now.
parse_certificate_file(path, fs) ==
    IF fs[path].present /\ fs[path].ok THEN cert_data(path, fs[path]) ELSE Raised

\* _process_certificate_file caching whatever the executor handed back.
finish_file_caching_all(w, k, t) ==
    LET task == w.sc.tasks[k] IN
    IF IsCert(task.result)
    THEN [w EXCEPT !.cache = set(w.cache, task.key, task.result, <<>>, t),
                   !.sc.tasks[k].pc = "done"]
    ELSE [w EXCEPT !.cache = set(w.cache, task.key, task.result, <<>>, t),
                   !.metrics = record_parse_error(w.metrics, task.path),
                   !.sc.tasks[k].pc = "done",
                   !.sc.tasks[k].records = @ + 1,
                   !.sc.calls = Append(@, [call |-> "record_parse_error",
                                           dir |-> w.sc.dir, path |-> task.path]),
                   !.sc.tasks[k].result = None]

\* _process_certificate_file after the executor: a parsed certificate is
\* cached and returned, an exception is recorded and None is returned.
finish_file(w, k, t) ==
    LET task == w.sc.tasks[k] IN
    IF IsCert(task.result)
    THEN [w EXCEPT !.cache = set(w.cache, task.key, task.result, <<>>, t),
                   !.sc.tasks[k].pc = "done"]
    ELSE [w EXCEPT !.metrics = record_parse_error(w.metrics, task.path),
                   !.sc.tasks[k].pc = "done",
                   !.sc.tasks[k].records = @ + 1,
                   !.sc.calls = Append(@, [call |-> "record_parse_error",
                                           dir |-> w.sc.dir, path |-> task.path]),
                   !.sc.tasks[k].result = None]

(***************************************************************************)
(* Coroutines on the event loop, _scan_lock and the callers of scan_once   *)
(***************************************************************************)
\* Coroutine ids: the periodic _scan_loop, the GET /scan handler, and the
\* debounced certificate tasks, numbered by the event that created them.
LoopId == 0
HttpId == -1

\* asyncio.sleep(1.0) of _debounced_cert_change, in clock ticks.
DEBOUNCE == 1

Coro(id, kind, pc, wake, file_path, event_type) ==
    [id |-> id, kind |-> kind, pc |-> pc, wake |-> wake, sc |-> NoScan,
     file_path |-> file_path, event_type |-> event_type]

\* What is recorded of one certificate event handed to
\* _handle_certificate_change, of the task it armed and of the calls the
\* task made on the cache, the metrics and the scanner.
Event(file_path, event_type, raw, t) ==
    [file_path |-> file_path, event_type |-> event_type, raw |-> raw, at |-> t,
     acted |-> FALSE, acted_at |-> 0, existed |-> FALSE, cancelled |-> FALSE,
     calls |-> <<>>]

Idx(cs, id) == CHOOSE i \in 1..Len(cs) : cs[i].id = id

RemoveAt(seq, i) == SubSeq(seq, 1, i - 1) \o SubSeq(seq, i + 1, Len(seq))

World(s, i) == [cache |-> s.cache, metrics |-> s.metrics, sc |-> s.coros[i].sc]

Merge(s, i, w) ==
    [s EXCEPT !.cache = w.cache, !.metrics = w.metrics, !.coros[i].sc = w.sc]

\* asyncio.Lock.acquire takes the lock without suspending only when it is
\* unlocked and no waiter is queued.
can_acquire_always(lock) == TRUE
can_acquire(lock) == ~lock.locked /\ lock.waiters = <<>>

\* What the caller does when scan_once returns: _scan_loop sleeps for the
\* scan interval, the /scan handler responds, the debounced certificate task
\* ends, _debounced_config_change goes on with its next block.
after_scan(s, i, env) ==
    LET kind == s.coros[i].kind IN
    [s EXCEPT !.coros[i].sc = NoScan,
              !.coros[i].pc = IF kind = "loop" THEN "sleeping"
                              ELSE IF kind = "http" THEN "idle"
                              ELSE IF kind = "config" THEN "returned" ELSE "done",
              !.coros[i].wake = IF kind = "loop"
                                THEN env.now + env.cfg.scan_interval_seconds
                                ELSE @]

\* scan_once past its last directory: the summary is built, the lock is
\* released and the result (the entries of scan_results["directories"] and
\* the summary) returned to the caller.
leave_scan(s, i, env) ==
    after_scan([s EXCEPT !.scan_lock.locked = FALSE,
                         !.scan_log.finished = @ + 1,
                         !.scan_log.directories = s.coros[i].sc.entries,
                         !.scan_log.calls = s.coros[i].sc.calls,
                         !.scan_log.metrics = s.metrics,
                         !.scan_log.summary = summary(s.coros[i].sc, env.cfg)],
               i, env)

\* scan_once from the acquisition of the lock on.
enter_scan(s, i, env) ==
    LET held == [s EXCEPT !.scan_lock.locked = TRUE,
                          !.scan_log.started = @ + 1,
                          !.coros[i].pc = "scanning"]
        w == begin_scan(World(held, i), env.cfg, env.fs, env.dirs, env.unreadable)
        scanning == Merge(held, i, w)
    IN IF w.sc.dir = 0 THEN leave_scan(scanning, i, env) ELSE scanning

\* CertificateScanner.scan_once, up to its first suspension.
scan_once(s, i, env) ==
    IF can_acquire(s.scan_lock)
    THEN enter_scan(s, i, env)
    ELSE [s EXCEPT !.coros[i].pc = "lock_wait",
                   !.scan_lock.waiters = Append(@, s.coros[i].id)]

\* Task.cancel() on a debounced task: CancelledError ends its sleep, takes it
\* out of the lock's waiters, or unwinds the scan it is in (the gathered file
\* tasks are cancelled and the lock is released); the task is then finished.
cancel(s, id) ==
    LET i == Idx(s.coros, id)
        c == s.coros[i]
    IN [s EXCEPT
          !.scan_lock.waiters = SelectSeq(@, LAMBDA w : w # id),
          !.scan_lock.locked = IF c.pc = "scanning" THEN FALSE ELSE @,
          !.history[id].cancelled = TRUE,
          !.coros = RemoveAt(@, i)]

(***************************************************************************)
(* HotReloadManager                                                        *)
(***************************************************************************)
\* What asyncio.sleep(1.0) started at t waits for.
sleep_until_now(t) == t
sleep_until(t) == t + DEBOUNCE

\* A debounced task that has not finished.
Pending(c) == c.kind = "cert" /\ c.pc # "done"

RECURSIVE CancelAll(_, _)
CancelAll(s, ids) ==
    IF ids = {} THEN s
    ELSE LET id == CHOOSE x \in ids : TRUE
         IN CancelAll(cancel(s, id), ids \ {id})

\* HotReloadManager._handle_certificate_change without the cancellation.
handle_certificate_change_keep(s, file_path, event_type, raw, env) ==
    LET id == Len(s.history) + 1
        armed == [s EXCEPT
                    !.history = Append(@, Event(file_path, event_type, raw, env.now)),
                    !.coros = Append(@, Coro(id, "cert", "sleeping", sleep_until(env.now),
                                             file_path, event_type))]
    IN [armed EXCEPT !.coros = SelectSeq(@, LAMBDA c : c.kind # "cert" \/ c.pc # "done")]

\* HotReloadManager._handle_certificate_change: the unfinished tasks of the
\* path are cancelled and forgotten, a new task is created and tracked, and
\* the finished tasks are dropped from _cert_change_tasks.
handle_certificate_change(s, file_path, event_type, raw, env) ==
    LET tasks_to_remove ==
            {s.coros[i].id : i \in {j \in 1..Len(s.coros) :
                                      /\ Pending(s.coros[j])
                                      /\ s.coros[j].file_path = file_path}}
        cancelled == CancelAll(s, tasks_to_remove)
        id == Len(s.history) + 1
        armed == [cancelled EXCEPT
                    !.history = Append(@, Event(file_path, event_type, raw, env.now)),
                    !.coros = Append(@, Coro(id, "cert", "sleeping", sleep_until(env.now),
                                             file_path, event_type))]
    IN [armed EXCEPT !.coros = SelectSeq(@, LAMBDA c : c.kind # "cert" \/ c.pc # "done")]

\* CertificateFileHandler.on_any_event: events that are not meaningful are
\* ignored, closed is mapped to created, and the handler coroutine is
\* scheduled on the event loop.
on_any_event(s, event, env) ==
    IF event.event_type \notin {"created", "modified", "deleted", "moved", "closed"}
    THEN s
    ELSE handle_certificate_change(s, event.src_path,
                                   IF event.event_type = "closed" THEN "created"
                                   ELSE event.event_type,
                                   event.event_type, env)

FullReload ==
    <<"cache.clear", "metrics.clear_all_certificate_metrics",
      "metrics.reset_scan_metrics", "scanner.scan_once">>

\* _debounced_cert_change that deletes the cache key and stops, whatever the
\* event.
debounced_cert_change_delete_only(s, i, env) ==
    LET c == s.coros[i]
        exists == env.fs[c.file_path].present
        cache_key == make_key("cert", c.file_path, env.fs[c.file_path].mtime)
    IN [s EXCEPT !.cache = delete(s.cache, cache_key).cache,
                 !.coros[i].pc = "done",
                 !.history[c.id].acted = TRUE,
                 !.history[c.id].acted_at = env.now,
                 !.history[c.id].existed = exists,
                 !.history[c.id].calls = <<"cache.delete">>]

\* HotReloadManager._debounced_cert_change after its sleep.
debounced_cert_change(s, i, env) ==
    LET c == s.coros[i]
        exists == env.fs[c.file_path].present
        reload == c.event_type \in {"created", "deleted", "moved"} \/ ~exists
        cache_key == make_key("cert", c.file_path, env.fs[c.file_path].mtime)
        invalidated ==
            [s EXCEPT !.cache = IF reload THEN clear(s.cache)
                                ELSE delete(s.cache, cache_key).cache,
                      !.history[c.id].acted = TRUE,
                      !.history[c.id].acted_at = env.now,
                      !.history[c.id].existed = exists,
                      !.history[c.id].calls = IF reload THEN FullReload
                                              ELSE <<"cache.delete">>]
    IN IF reload
       THEN scan_once([invalidated EXCEPT
                         !.metrics = reset_scan_metrics(clear_all_certificate_metrics(@))],
                      i, env)
       ELSE [invalidated EXCEPT !.coros[i].pc = "done"]

(***************************************************************************)
(* HotReloadManager: the configuration file                                *)
(***************************************************************************)
\* The task _handle_config_change creates; at most one is pending.
ConfigId == -2

\* asyncio.sleep(2.0) of _debounced_config_change, in clock ticks.
CONFIG_DEBOUNCE == 2

DirSet(cfg) ==
    {cfg.certificate_directories[k] : k \in 1..Len(cfg.certificate_directories)}

\* The differences _debounced_config_change computes between the current
\* snapshot and the one it has loaded.
Changes(old, new) ==
    [dirs_added |-> DirSet(new) \ DirSet(old),
     dirs_removed |-> DirSet(old) \ DirSet(new),
     passwords_changed |-> old.p12_passwords # new.p12_passwords,
     exclude_changed |-> \/ old.exclude_directories # new.exclude_directories
                         \/ old.exclude_file_patterns # new.exclude_file_patterns,
     interval_changed |->
         LET d == old.scan_interval_seconds - new.scan_interval_seconds
         IN (IF d < 0 THEN -d ELSE d) > 60]

\* What is recorded of one run of _debounced_config_change past its sleep:
\* the two snapshots, the block it is at, the calls it has made on the cache,
\* the metrics and the scanner, and whether cancel() has been called on the
\* task while it was running.
Reload(old, new) ==
    [old |-> old, new |-> new, changes |-> Changes(old, new), stage |-> "dirs",
     calls |-> <<>>, must_cancel |-> FALSE, ended |-> "running"]

\* The state _debounced_config_change works on: the state the coroutines
\* share, the configuration snapshot, the watcher and the record of reloads.
Log(x, call) == [x EXCEPT !.reloads[Len(x.reloads)].calls = Append(@, call)]

\* Task.cancel() on the configuration task: CancelledError ends its sleep,
\* takes it out of the lock's waiters or unwinds the scan it is in, and is
\* caught by _debounced_config_change.
cancel_config(s, id) ==
    LET i == Idx(s.coros, id)
        c == s.coros[i]
    IN [s EXCEPT
          !.scan_lock.waiters = SelectSeq(@, LAMBDA w : w # id),
          !.scan_lock.locked = IF c.pc = "scanning" THEN FALSE ELSE @,
          !.coros = RemoveAt(@, i)]

\* HotReloadManager.stop: the pending certificate tasks and the configuration
\* task are cancelled; called from the configuration task itself, cancel()
\* takes effect at the next await of the task that suspends.
stop(x) ==
    IF ~x.hot.watching THEN x
    ELSE LET pending == {x.s.coros[k].id :
                           k \in {j \in 1..Len(x.s.coros) : Pending(x.s.coros[j])}}
         IN [x EXCEPT !.s = CancelAll(@, pending),
                      !.reloads[Len(x.reloads)].must_cancel = TRUE,
                      !.hot = [watching |-> FALSE, watched_paths |-> {}]]

\* HotReloadManager.start: the directories that exist are scheduled, and the
\* observer thread is started, which raises when the thread has been started
\* before and cannot be started again.
start(x, env) ==
    IF ~x.config.hot_reload \/ x.hot.watching THEN x
    ELSE [x EXCEPT !.hot = [watching |-> env.observer_starts,
                            watched_paths |-> DirSet(x.config) \cap env.dirs]]

\* HotReloadManager._update_watched_directories
update_watched_directories(x, dirs_added, dirs_removed, env) ==
    IF dirs_removed # {}
    THEN start(stop(x), env)
    ELSE [x EXCEPT !.hot.watched_paths = @ \cup (dirs_added \cap env.dirs)]

RECURSIVE run_reload(_, _, _)

\* scan_once awaited by _debounced_config_change before the block next_stage:
\* when it returns without suspending the handler goes on; when it suspends,
\* on the lock or on the file tasks, a task that has been cancelled ends there.
reload_scan(x, id, next_stage, env) ==
    LET n == Len(x.reloads)
        called == [Log(x, "scanner.scan_once") EXCEPT !.reloads[n].stage = next_stage]
        i == Idx(called.s.coros, id)
        scanned == scan_once(called.s, i, [env EXCEPT !.cfg = x.config])
    IN IF scanned.coros[i].pc = "returned"
       THEN run_reload([called EXCEPT !.s = scanned], id, env)
       ELSE IF called.reloads[n].must_cancel
       THEN [called EXCEPT !.s = cancel_config(scanned, id),
                           !.reloads[n].ended = "cancelled"]
       ELSE [called EXCEPT !.s = scanned]

\* _debounced_config_change from the block it is at up to its next suspension:
\* the directories block, the scan interval block, the passwords block, the
\* exclude block, and the end of the task.
run_reload(x, id, env) ==
    LET n == Len(x.reloads)
        r == x.reloads[n]
        at(stage) == [x EXCEPT !.reloads[n].stage = stage]
        cleared(y) == Log([y EXCEPT !.s.cache = clear(@)], "cache.clear")
        all_reset(y) ==
            Log(Log([y EXCEPT !.s.metrics =
                                reset_scan_metrics(clear_all_certificate_metrics(@))],
                    "metrics.clear_all_certificate_metrics"),
                "metrics.reset_scan_metrics")
    IN CASE r.stage = "dirs" ->
              IF r.changes.dirs_added = {} /\ r.changes.dirs_removed = {}
              THEN run_reload(at("interval"), id, env)
              ELSE reload_scan(
                     update_watched_directories(
                        all_reset(IF r.changes.dirs_removed # {} THEN cleared(x) ELSE x),
                        r.changes.dirs_added, r.changes.dirs_removed, env),
                     id, "interval", env)
         [] r.stage = "interval" ->
              run_reload(IF r.changes.interval_changed
                         THEN cleared(at("passwords")) ELSE at("passwords"),
                         id, env)
         [] r.stage = "passwords" ->
              IF ~r.changes.passwords_changed
              THEN run_reload(at("exclude"), id, env)
              ELSE reload_scan(
                     Log([cleared(x) EXCEPT !.s.metrics = reset_parse_error_metrics(@)],
                         "metrics.reset_parse_error_metrics"),
                     id, "exclude", env)
         [] r.stage = "exclude" ->
              IF ~r.changes.exclude_changed
              THEN run_reload(at("end"), id, env)
              ELSE reload_scan(all_reset(cleared(x)), id, "end", env)
         [] OTHER ->
              [x EXCEPT !.s.coros = RemoveAt(@, Idx(@, id)),
                        !.reloads[n].ended = "done"]

\* HotReloadManager._debounced_config_change after its sleep: the file is
\* loaded, the differences are computed, the snapshot of the manager and of
\* the scanner is replaced, and the blocks run.
debounced_config_change(x, id, env) ==
    LET new_config == env.config_file.content
        loaded == [x EXCEPT !.config = new_config,
                            !.reloads = Append(@, Reload(x.config, new_config)),
                            !.s.coros[Idx(x.s.coros, id)].pc = "running"]
    IN run_reload(loaded, id, env)

\* HotReloadManager._handle_config_change: a configuration task that is not
\* done is cancelled, and a new one is created.
handle_config_change(x, env) ==
    LET running == \E k \in 1..Len(x.s.coros) : x.s.coros[k].kind = "config"
        started == running /\ x.s.coros[Idx(x.s.coros, ConfigId)].pc # "sleeping"
        cancelled ==
            IF ~running THEN x
            ELSE [x EXCEPT !.s = cancel_config(@, ConfigId),
                           !.reloads = IF started
                                       THEN [@ EXCEPT ![Len(@)].ended = "cancelled"]
                                       ELSE @]
    IN [cancelled EXCEPT
          !.s.coros = Append(@, Coro(ConfigId, "config", "sleeping",
                                     env.now + CONFIG_DEBOUNCE, "", ""))]

\* HotReloadManager.stop awaited by MonitorApp.shutdown: nothing is done when
\* the manager is not watching; otherwise cancel() is called on every task of
\* _cert_change_tasks and on the configuration task, which are suspended and
\* end with CancelledError, and the watched paths are cleared.
shutdown_stop(x) ==
    IF ~x.hot.watching THEN x
    ELSE LET pending == {x.s.coros[k].id :
                           k \in {j \in 1..Len(x.s.coros) : Pending(x.s.coros[j])}}
             tasks_cancelled == CancelAll(x.s, pending)
             running == \E k \in 1..Len(x.s.coros) : x.s.coros[k].kind = "config"
             started == running /\ x.s.coros[Idx(x.s.coros, ConfigId)].pc # "sleeping"
         IN [x EXCEPT !.s = IF running THEN cancel_config(tasks_cancelled, ConfigId)
                                       ELSE tasks_cancelled,
                      !.reloads = IF started
                                  THEN [@ EXCEPT ![Len(@)].ended = "cancelled"]
                                  ELSE @,
                      !.hot = [watching |-> FALSE, watched_paths |-> {}]]

\* CertificateScanner.stop that cancels the loop only while it sleeps.
scanner_stop_sleeping(s, fs) ==
    IF \E k \in 1..Len(s.coros) : s.coros[k].kind = "loop" /\ s.coros[k].pc = "sleeping"
    THEN [s EXCEPT !.coros = SelectSeq(@, LAMBDA c : c.kind # "loop")]
    ELSE s

\* CertificateScanner.stop: cancel() on _scan_task and the await of the task.
\* CancelledError ends the sleep of _scan_loop, takes it out of the lock's
\* waiters, or unwinds the scan_once it is in (the lock is released); the
\* loop catches it and breaks.  executor.shutdown(wait=True) then lets the
\* parses that are running on worker threads finish.
scanner_stop(s, fs) ==
    LET looping == {k \in 1..Len(s.coros) : s.coros[k].kind = "loop"}
        ended == [s EXCEPT
                    !.scan_lock.waiters = SelectSeq(@, LAMBDA w : w # LoopId),
                    !.scan_lock.locked =
                        IF \E k \in looping : s.coros[k].pc = "scanning"
                        THEN FALSE ELSE @,
                    !.coros = SelectSeq(@, LAMBDA c : c.kind # "loop")]
        parsed(task) ==
            IF task.pc = "parsing"
            THEN [task EXCEPT !.pc = "parsed",
                              !.result = parse_certificate_file(task.path, fs)]
            ELSE task
        drained(c) ==
            IF c.pc = "scanning"
            THEN [c EXCEPT !.sc.tasks = [k \in 1..Len(c.sc.tasks) |->
                                           parsed(c.sc.tasks[k])]]
            ELSE c
    IN [ended EXCEPT !.coros = [k \in 1..Len(ended.coros) |-> drained(ended.coros[k])]]

(***************************************************************************)
(* State                                                                   *)
(***************************************************************************)
VARIABLES
    cache,          \* CacheManager: _memory_cache, _current_size, _access_count, _hit_count
    cache_file,     \* cache.json on disk
    cache_ready,    \* CacheManager.initialize has run
    now,            \* time.time(), in ticks
    ret,            \* the last cache call made by a client and what it returned
    last_set,       \* the arguments and the time of the last set made by a client
    config,         \* the configuration snapshot
    dirs_on_disk,   \* the directories that exist
    fs,             \* the certificate files
    fs_ops,         \* number of changes made to the file tree
    watch_queue,    \* events the watchdog observer has not dispatched yet
    hot,            \* HotReloadManager: observers running, directories watched
    metrics,        \* MetricsCollector
    scan_lock,      \* CertificateScanner._scan_lock
    coros,          \* coroutines on the event loop
    scan_log,       \* scans started and finished; the last summary returned
    history,        \* the certificate events handled
    http_scans,     \* GET /scan requests made
    in_sync,        \* /metrics has matched the file tree since the tree last changed
    temp_file,      \* cache.tmp on disk
    save_call,      \* the save_to_disk call in progress, or how the last one ended
    config_file,    \* the configuration file on disk and the times it was rewritten
    reloads,        \* the runs of _debounced_config_change past its sleep
    unreadable_dirs,\* the directories that exist and cannot be listed
    app             \* MonitorApp.shutdown: the Stop calls that have returned

sys_vars == <<config, dirs_on_disk, fs, fs_ops, watch_queue, hot, metrics,
              scan_lock, coros, scan_log, history, http_scans, in_sync,
              temp_file, save_call, config_file, reloads,
              unreadable_dirs, app>>
vars == <<cache, cache_file, cache_ready, now, ret, last_set,
          config, dirs_on_disk, fs, fs_ops, watch_queue, hot, metrics,
          scan_lock, coros, scan_log, history, http_scans, in_sync,
          temp_file, save_call, config_file, reloads,
          unreadable_dirs, app>>

NoCall == [op |-> "other", key |-> "", value |-> None]

NoSummary ==
    [total_files |-> 0, total_parsed |-> 0, total_errors |-> 0,
     directories_scanned |-> 0]

\* The mutable state the coroutines share, and what they read of the
\* environment during one step.
State ==
    [cache |-> cache, metrics |-> metrics, scan_lock |-> scan_lock,
     coros |-> coros, scan_log |-> scan_log, history |-> history]

Env == [cfg |-> config, fs |-> fs, dirs |-> dirs_on_disk,
        unreadable |-> unreadable_dirs, now |-> now]

\* /metrics exposes labeled certificate series for exactly the certificate
\* files on disk, and ssl_certs_parsed_total is their number.
InSync(m, files) ==
    LET on_disk == {f \in Files : files[f].present /\ files[f].ok} IN
    /\ {series.path : series \in m.series} = on_disk
    /\ m.certs_parsed_total = Cardinality(on_disk)

Commit(s) ==
    /\ cache' = s.cache
    /\ metrics' = s.metrics
    /\ scan_lock' = s.scan_lock
    /\ coros' = s.coros
    /\ scan_log' = s.scan_log
    /\ history' = s.history
    /\ in_sync' = (in_sync \/ InSync(s.metrics, fs))

\* No component has been stopped.
Running == [hot_reload |-> "running", scanner |-> "running", pending |-> {},
            was_watching |-> FALSE, loop_pc |-> "", stopped_at |-> 0]

\* The system as MonitorApp.initialize leaves it, without the coroutines.
SysInit ==
    /\ config = StartConfig
    /\ dirs_on_disk = {"d1", "d2"}
    /\ fs = [f \in Files |-> IF f = "d1/a.pem" THEN CertFile(0, "s1") ELSE AbsentFile]
    /\ fs_ops = 0
    /\ watch_queue = <<>>
    /\ hot = [watching |-> TRUE, watched_paths |-> {"d1", "d2"}]
    /\ metrics = NewMetrics
    /\ scan_lock = [locked |-> FALSE, waiters |-> <<>>]
    /\ scan_log = [started |-> 0, finished |-> 0, directories |-> <<>>,
                   calls |-> <<>>, metrics |-> NewMetrics, summary |-> NoSummary]
    /\ history = <<>>
    /\ http_scans = 0
    /\ in_sync = FALSE
    /\ temp_file = NoFile
    /\ save_call = NoSave
    /\ config_file = [content |-> StartConfig, writes |-> 0]
    /\ reloads = <<>>
    /\ unreadable_dirs = {}
    /\ app = Running

(***************************************************************************)
(* SpecCache: the cache operations                                         *)
(***************************************************************************)
CacheInit ==
    /\ cache = EmptyCache
    /\ cache_file \in PersistedFiles
    /\ cache_ready = FALSE
    /\ now = StartTime
    /\ ret = NoCall
    /\ last_set = None
    /\ SysInit
    /\ coros = <<>>

\* CacheManager.initialize: load cache.json; a file that fails to load is
\* unlinked, unless the unlink itself fails with OSError.
Initialize ==
    /\ ~cache_ready
    /\ LET loaded == load_persistent_cache(cache, cache_file, now) IN
        /\ cache' = loaded.cache
        /\ IF loaded.failed
           THEN cache_file' \in {NoFile, cache_file}
           ELSE cache_file' = cache_file
    /\ cache_ready' = TRUE
    /\ ret' = NoCall
    /\ UNCHANGED <<now, last_set>>
    /\ UNCHANGED sys_vars

Get(key) ==
    /\ cache_ready
    /\ cache.access_count < MaxAccesses
    /\ LET r == get(cache, key, now) IN
        /\ cache' = r.cache
        /\ ret' = [op |-> "get", key |-> key, value |-> r.value]
    /\ UNCHANGED <<cache_file, cache_ready, now, last_set>>
    /\ UNCHANGED sys_vars

Set(key, value, ttl) ==
    /\ cache_ready
    /\ cache' = set(cache, key, value, ttl, now)
    /\ ret' = [op |-> "set", key |-> key, value |-> None]
    /\ last_set' = [key |-> key, value |-> value, ts |-> now,
                     ttl |-> IF ttl = <<>> THEN default_ttl ELSE ttl[1]]
    /\ UNCHANGED <<cache_file, cache_ready, now>>
    /\ UNCHANGED sys_vars

Delete(key) ==
    /\ cache_ready
    /\ LET r == delete(cache, key) IN
        /\ cache' = r.cache
        /\ ret' = NoCall
    /\ UNCHANGED <<cache_file, cache_ready, now, last_set>>
    /\ UNCHANGED sys_vars

Clear ==
    /\ cache_ready
    /\ cache' = clear(cache)
    /\ ret' = NoCall
    /\ UNCHANGED <<cache_file, cache_ready, now, last_set>>
    /\ UNCHANGED sys_vars

CleanupExpired ==
    /\ cache_ready
    /\ LET r == cleanup_expired(cache, now) IN
        /\ cache' = r.cache
        /\ ret' = NoCall
    /\ UNCHANGED <<cache_file, cache_ready, now, last_set>>
    /\ UNCHANGED sys_vars

Tick ==
    /\ now < MaxTime
    /\ now' = now + 1
    /\ ret' = NoCall
    /\ UNCHANGED <<cache, cache_file, cache_ready, last_set>>
    /\ UNCHANGED sys_vars

CacheNext ==
    \/ Initialize
    \/ \E key \in Keys : Get(key)
    \/ \E key \in Keys, value \in Values, ttl \in TtlArgs : Set(key, value, ttl)
    \/ \E key \in Keys : Delete(key)
    \/ Clear
    \/ CleanupExpired
    \/ Tick

SpecCache == CacheInit /\ [][CacheNext]_vars

(***************************************************************************)
(* Spec: the scanner, its callers, hot reload and the file tree            *)
(***************************************************************************)
\* After MonitorApp.initialize: the cache is initialized and empty, the
\* observers run, and _scan_loop is about to make its first scan.
Init ==
    /\ cache = EmptyCache
    /\ cache_file = NoFile
    /\ cache_ready = TRUE
    /\ now = StartTime
    /\ ret = NoCall
    /\ last_set = None
    /\ SysInit
    /\ coros = <<Coro(LoopId, "loop", "sleeping", StartTime, "", ""),
                 Coro(HttpId, "http", "idle", 0, "", "")>>

Untouched == <<cache_file, cache_ready, now, ret, last_set, config, dirs_on_disk, hot,
               temp_file, save_call, config_file, reloads,
               unreadable_dirs, app>>

\* _scan_loop: the sleep is over (or the loop has just started), scan_once
\* is called.
LoopScan ==
    /\ \E i \in 1..Len(coros) :
        /\ coros[i].kind = "loop"
        /\ coros[i].pc = "sleeping"
        /\ coros[i].wake <= now
        /\ Commit(scan_once(State, i, Env))
    /\ UNCHANGED <<fs, fs_ops, watch_queue, http_scans>>
    /\ UNCHANGED Untouched

\* GET /scan: the handler calls scan_once.
HttpScan ==
    /\ http_scans < MaxHttpScans
    /\ \E i \in 1..Len(coros) :
        /\ coros[i].kind = "http"
        /\ coros[i].pc = "idle"
        /\ Commit(scan_once(State, i, Env))
    /\ http_scans' = http_scans + 1
    /\ UNCHANGED <<fs, fs_ops, watch_queue>>
    /\ UNCHANGED Untouched

\* The first waiter of the released _scan_lock is resumed and enters the
\* body of scan_once.
LockGranted ==
    /\ ~scan_lock.locked
    /\ scan_lock.waiters # <<>>
    /\ LET i == Idx(coros, Head(scan_lock.waiters)) IN
        Commit(enter_scan([State EXCEPT !.scan_lock.waiters = Tail(@)], i, Env))
    /\ UNCHANGED <<fs, fs_ops, watch_queue, http_scans>>
    /\ UNCHANGED Untouched

\* A file task gets the semaphore, stats the file and looks the key up.
\* run_in_executor raises RuntimeError once the executor has been shut down,
\* which _process_certificate_file records as a parse error.
StartFile(i, k) ==
    /\ coros[i].pc = "scanning"
    /\ k \in 1..Len(coros[i].sc.tasks)
    /\ coros[i].sc.tasks[k].pc = "queued"
    /\ \A j \in 1..(k - 1) : coros[i].sc.tasks[j].pc # "queued"
    /\ InFlight(coros[i].sc.tasks) < coros[i].sc.semaphore
    /\ LET w == start_file(World(State, i), k, fs, now)
       IN Commit(Merge(State, i,
                       IF app.scanner = "stopped" /\ w.sc.tasks[k].pc = "parsing"
                       THEN finish_file([w EXCEPT !.sc.tasks[k].result = Raised], k, now)
                       ELSE w))
    /\ UNCHANGED <<fs, fs_ops, watch_queue, http_scans>>
    /\ UNCHANGED Untouched

\* The executor thread reads and parses the file.
ParseFile(i, k) ==
    /\ coros[i].pc = "scanning"
    /\ k \in 1..Len(coros[i].sc.tasks)
    /\ coros[i].sc.tasks[k].pc = "parsing"
    /\ coros' = [coros EXCEPT
                   ![i].sc.tasks[k].pc = "parsed",
                   ![i].sc.tasks[k].result =
                        parse_certificate_file(coros[i].sc.tasks[k].path, fs)]
    /\ UNCHANGED <<cache, metrics, scan_lock, scan_log, history, in_sync>>
    /\ UNCHANGED <<fs, fs_ops, watch_queue, http_scans>>
    /\ UNCHANGED Untouched

\* The file task is resumed with the executor's result.
FinishFile(i, k) ==
    /\ coros[i].pc = "scanning"
    /\ k \in 1..Len(coros[i].sc.tasks)
    /\ coros[i].sc.tasks[k].pc = "parsed"
    /\ Commit(Merge(State, i, finish_file(World(State, i), k, now)))
    /\ UNCHANGED <<fs, fs_ops, watch_queue, http_scans>>
    /\ UNCHANGED Untouched

\* The gather of the directory's tasks is done: scan_once goes on to the
\* next directory, or returns.
ResumeScan(i) ==
    /\ coros[i].pc = "scanning"
    /\ \A k \in 1..Len(coros[i].sc.tasks) : coros[i].sc.tasks[k].pc = "done"
    /\ LET w == resume_scan(World(State, i), config, fs, dirs_on_disk, unreadable_dirs)
           s == Merge(State, i, w)
       IN Commit(IF w.sc.dir = 0 THEN leave_scan(s, i, Env) ELSE s)
    /\ UNCHANGED <<fs, fs_ops, watch_queue, http_scans>>
    /\ UNCHANGED Untouched

\* GET /metrics: get_metrics refreshes the duplicate metrics.
Scrape ==
    /\ metrics' = update_duplicate_metrics(metrics)
    /\ UNCHANGED <<cache, scan_lock, coros, scan_log, history, in_sync>>
    /\ UNCHANGED <<fs, fs_ops, watch_queue, http_scans>>
    /\ UNCHANGED Untouched

\* The observer reports a change of a file in a watched directory.
Observe(path, event_type) ==
    IF hot.watching /\ DirOf(path) \in hot.watched_paths
    THEN Append(watch_queue, [src_path |-> path, event_type |-> event_type])
    ELSE watch_queue

\* The environment writes a certificate file: a new file or new content.
WriteFile(f, content) ==
    /\ fs_ops < MaxFsOps
    /\ fs_ops' = fs_ops + 1
    /\ fs' = [fs EXCEPT ![f] = WrittenFile(fs_ops + 1, content)]
    /\ watch_queue' = Observe(f, IF fs[f].present THEN "modified" ELSE "created")
    /\ in_sync' = InSync(metrics, fs')
    /\ UNCHANGED <<cache, metrics, scan_lock, coros, scan_log, history, http_scans>>
    /\ UNCHANGED Untouched

\* The environment deletes a file, or moves it out of the tree.
RemoveFile(f, event_type) ==
    /\ fs_ops < MaxFsOps
    /\ fs[f].present
    /\ fs_ops' = fs_ops + 1
    /\ fs' = [fs EXCEPT ![f] = AbsentFile]
    /\ watch_queue' = Observe(f, event_type)
    /\ in_sync' = InSync(metrics, fs')
    /\ UNCHANGED <<cache, metrics, scan_lock, coros, scan_log, history, http_scans>>
    /\ UNCHANGED Untouched

\* The environment opens a file, or closes a file it had open for writing.
TouchFile(f, event_type) ==
    /\ fs_ops < MaxFsOps
    /\ fs[f].present
    /\ fs_ops' = fs_ops + 1
    /\ watch_queue' = Observe(f, event_type)
    /\ UNCHANGED <<cache, metrics, scan_lock, coros, scan_log, history, http_scans, fs, in_sync>>
    /\ UNCHANGED Untouched

\* The observer thread dispatches its oldest event to on_any_event.
DeliverEvent ==
    /\ watch_queue # <<>>
    /\ watch_queue' = Tail(watch_queue)
    /\ Commit(on_any_event(State, Head(watch_queue), Env))
    /\ UNCHANGED <<fs, fs_ops, http_scans>>
    /\ UNCHANGED Untouched

\* The sleep of a debounced task is over.
CertTaskWake(i) ==
    /\ coros[i].kind = "cert"
    /\ coros[i].pc = "sleeping"
    /\ coros[i].wake <= now
    /\ Commit(debounced_cert_change(State, i, Env))
    /\ UNCHANGED <<fs, fs_ops, watch_queue, http_scans>>
    /\ UNCHANGED Untouched

\* Time passes when no timer is due: a coroutine whose sleep has run out is
\* resumed first.
Advance ==
    /\ now < LastTick
    /\ \A i \in 1..Len(coros) : coros[i].pc = "sleeping" => coros[i].wake > now
    /\ now' = now + 1
    /\ UNCHANGED <<cache, cache_file, cache_ready, ret, last_set>>
    /\ UNCHANGED sys_vars

Next ==
    \/ LoopScan
    \/ HttpScan
    \/ LockGranted
    \/ \E i \in 1..Len(coros), k \in 1..Len(FileOrder) : StartFile(i, k)
    \/ \E i \in 1..Len(coros), k \in 1..Len(FileOrder) : ParseFile(i, k)
    \/ \E i \in 1..Len(coros), k \in 1..Len(FileOrder) : FinishFile(i, k)
    \/ \E i \in 1..Len(coros) : ResumeScan(i)
    \/ Scrape
    \/ \E f \in Primary, content \in Contents : WriteFile(f, content)
    \/ \E f \in Primary, event_type \in {"deleted", "moved"} : RemoveFile(f, event_type)
    \/ \E f \in Primary, event_type \in {"opened", "closed"} : TouchFile(f, event_type)
    \/ DeliverEvent
    \/ \E i \in 1..Len(coros) : CertTaskWake(i)
    \/ Advance

Spec == Init /\ [][Next]_vars

(***************************************************************************)
(* SpecLru: set and get on three keys, for the order of eviction           *)
(***************************************************************************)
\* An initialized, empty cache without cache.json.
LruInit ==
    /\ cache = EmptyCache
    /\ cache_file = NoFile
    /\ cache_ready = TRUE
    /\ now = StartTime
    /\ ret = NoCall
    /\ last_set = None
    /\ SysInit
    /\ coros = <<>>

\* The documents set is called with have 12 and 16 bytes, so that two entries
\* fit in max_size and a third needs one or two evictions.
LruNext ==
    \/ \E key \in {"k1", "k2", "k3"} : Get(key)
    \/ \E key \in {"k1", "k2", "k3"}, value \in {SmallValue, MidValue} :
          Set(key, value, <<>>)
    \/ Tick

SpecLru == LruInit /\ [][LruNext]_vars

(***************************************************************************)
(* SpecPersist: save_to_disk, close and the next start of the program      *)
(***************************************************************************)
\* A cache initialized in an empty cache directory, or from the cache.json a
\* previous run left.
PersistInit ==
    /\ cache_file \in {NoFile, PersistedFile(<<StalePersisted, LivePersisted>>)}
    /\ cache = load_persistent_cache(EmptyCache, cache_file, StartTime).cache
    /\ cache_ready = TRUE
    /\ now = StartTime
    /\ ret = NoCall
    /\ last_set = None
    /\ SysInit
    /\ coros = <<>>

\* What a save step leaves alone.
SaveUnchanged == <<cache, now, last_set, config, dirs_on_disk, fs, fs_ops,
                   watch_queue, hot, metrics, scan_lock, coros, scan_log,
                   history, http_scans, in_sync, config_file, reloads,
                   unreadable_dirs, app>>

\* save_to_disk returns: after close the process ends.
end_save(ok) ==
    /\ save_call' = [save_call EXCEPT !.pc = IF save_call.closing THEN "closed" ELSE "idle",
                                      !.ok = ok]
    /\ cache_ready' = ~save_call.closing

\* save_to_disk is called, by the maintenance task or by close at shutdown:
\* cache_data is built under the lock.
BeginSave(closing) ==
    /\ cache_ready
    /\ save_call.pc = "idle"
    /\ save_call.n < MaxSaves
    /\ save_call' = [pc |-> "open", data |-> cache_data(cache, now),
                     memory |-> cache, closing |-> closing, ok |-> FALSE,
                     n |-> save_call.n + 1]
    /\ ret' = NoCall
    /\ UNCHANGED <<cache_file, temp_file, cache_ready>>
    /\ UNCHANGED SaveUnchanged

\* open(temp_file, "w"): the file is created or truncated, or open raises.
OpenTemp(raises) ==
    /\ save_call.pc = "open"
    /\ IF raises
       THEN /\ end_save(FALSE)
            /\ UNCHANGED <<cache_file, temp_file>>
       ELSE /\ save_call' = [save_call EXCEPT !.pc = "dump"]
            /\ IF save_target = "temp_file"
               THEN temp_file' = GarbageFile /\ UNCHANGED cache_file
               ELSE cache_file' = GarbageFile /\ UNCHANGED temp_file
            /\ UNCHANGED cache_ready
    /\ ret' = NoCall
    /\ UNCHANGED SaveUnchanged

\* json.dump writes the document, or raises part-way and leaves what it wrote.
DumpTemp(raises) ==
    /\ save_call.pc = "dump"
    /\ IF raises
       THEN /\ end_save(FALSE)
            /\ UNCHANGED <<cache_file, temp_file>>
       ELSE /\ save_call' = [save_call EXCEPT !.pc = "rename"]
            /\ IF save_target = "temp_file"
               THEN temp_file' = save_call.data /\ UNCHANGED cache_file
               ELSE cache_file' = save_call.data /\ UNCHANGED temp_file
            /\ UNCHANGED cache_ready
    /\ ret' = NoCall
    /\ UNCHANGED SaveUnchanged

\* temp_file.rename(cache_file) replaces cache.json, or raises.
RenameTemp(raises) ==
    /\ save_call.pc = "rename"
    /\ IF raises
       THEN /\ end_save(FALSE)
            /\ UNCHANGED <<cache_file, temp_file>>
       ELSE /\ end_save(TRUE)
            /\ IF save_target = "temp_file"
               THEN cache_file' = temp_file /\ temp_file' = NoFile
               ELSE UNCHANGED <<cache_file, temp_file>>
    /\ ret' = NoCall
    /\ UNCHANGED SaveUnchanged

\* The process is killed at some point of a save, or after one.
Crash ==
    /\ cache_ready
    /\ save_call.n > 0
    /\ cache_ready' = FALSE
    /\ save_call' = [save_call EXCEPT !.pc = "closed",
                                      !.ok = (save_call.pc = "idle" /\ save_call.ok)]
    /\ ret' = NoCall
    /\ UNCHANGED <<cache_file, temp_file>>
    /\ UNCHANGED SaveUnchanged

\* The program starts again on the same cache directory: a fresh
\* CacheManager is initialized; a file that fails to load is unlinked, unless
\* the unlink itself fails with OSError.
Restart ==
    /\ ~cache_ready
    /\ LET loaded == load_persistent_cache(EmptyCache, cache_file, now) IN
        /\ cache' = loaded.cache
        /\ IF loaded.failed
           THEN cache_file' \in {NoFile, cache_file}
           ELSE cache_file' = cache_file
    /\ cache_ready' = TRUE
    /\ save_call' = [save_call EXCEPT !.pc = "idle"]
    /\ ret' = NoCall
    /\ last_set' = None
    /\ UNCHANGED <<now, temp_file>>
    /\ UNCHANGED <<config, dirs_on_disk, fs, fs_ops, watch_queue, hot, metrics,
                   scan_lock, coros, scan_log, history, http_scans, in_sync,
                   config_file, reloads, unreadable_dirs, app>>

\* No save is in progress and the run has a save to come.
BeforeLastSave == save_call.pc = "idle" /\ save_call.n < MaxSaves

\* The event loop runs no other coroutine between the steps of save_to_disk,
\* which has no await after the lock; the clock goes on. The gets and sets
\* explored are those made before the last save of the run.
PersistNext ==
    \/ \E key \in Keys : BeforeLastSave /\ Get(key)
    \/ \E key \in Keys, value \in {SmallValue, MidValue}, ttl \in TtlArgs :
          BeforeLastSave /\ Set(key, value, ttl)
    \/ Tick
    \/ \E closing \in BOOLEAN : BeginSave(closing)
    \/ \E raises \in BOOLEAN : OpenTemp(raises)
    \/ \E raises \in BOOLEAN : DumpTemp(raises)
    \/ \E raises \in BOOLEAN : RenameTemp(raises)
    \/ Crash
    \/ Restart

SpecPersist == PersistInit /\ [][PersistNext]_vars

(***************************************************************************)
(* SpecConfig: the periodic scan and reloads of the configuration file     *)
(***************************************************************************)
Base(dirs) == [StartConfig EXCEPT !.certificate_directories = dirs]

\* What the configuration file is rewritten to.
ConfigSnapshots ==
    {StartConfig,
     Base(<<"d1">>),
     Base(<<"d2">>),
     [StartConfig EXCEPT !.p12_passwords = {"pw"}],
     [StartConfig EXCEPT !.exclude_file_patterns = {"pem$"}],
     [StartConfig EXCEPT !.scan_interval_seconds = 90],
     [StartConfig EXCEPT !.scan_interval_seconds = 30],
     [StartConfig EXCEPT !.p12_passwords = {"pw"}, !.exclude_file_patterns = {"^b"}],
     [Base(<<"d1">>) EXCEPT !.p12_passwords = {"pw"}, !.exclude_directories = {"d2"}]}

\* The program starts with two directories, one directory, or one directory
\* listed twice.  On disk both directories exist or one of them is missing,
\* and at most one existing directory cannot be listed; the same certificate
\* is in every existing directory, or one certificate is in d1 and nothing
\* in d2.
ConfigInit ==
    /\ cache = EmptyCache
    /\ cache_file = NoFile
    /\ cache_ready = TRUE
    /\ now = StartTime
    /\ ret = NoCall
    /\ last_set = None
    /\ config \in {StartConfig, Base(<<"d1">>), Base(<<"d1", "d1">>)}
    /\ dirs_on_disk \in {{"d1", "d2"}, {"d1"}, {"d2"}}
    /\ unreadable_dirs \in {{}, {"d1"} \cap dirs_on_disk, {"d2"} \cap dirs_on_disk}
    /\ fs \in {[f \in Files |-> IF f \in Primary /\ DirOf(f) \in dirs_on_disk
                               THEN CertFile(0, "s1") ELSE AbsentFile],
              [f \in Files |-> IF f = "d1/a.pem" /\ "d1" \in dirs_on_disk
                               THEN CertFile(0, "s1") ELSE AbsentFile]}
    /\ fs_ops = 0
    /\ watch_queue = <<>>
    /\ hot = [watching |-> TRUE, watched_paths |-> DirSet(config) \cap dirs_on_disk]
    /\ metrics = NewMetrics
    /\ scan_lock = [locked |-> FALSE, waiters |-> <<>>]
    /\ coros = <<Coro(LoopId, "loop", "sleeping", StartTime, "", "")>>
    /\ scan_log = [started |-> 0, finished |-> 0, directories |-> <<>>,
                   calls |-> <<>>, metrics |-> NewMetrics, summary |-> NoSummary]
    /\ history = <<>>
    /\ http_scans = 0
    /\ in_sync = FALSE
    /\ temp_file = NoFile
    /\ save_call = NoSave
    /\ config_file = [content |-> config, writes |-> 0]
    /\ reloads = <<>>
    /\ app = Running

Manager == [s |-> State, config |-> config, hot |-> hot, reloads |-> reloads]

ConfigEnv(observer_starts) ==
    [cfg |-> config, fs |-> fs, dirs |-> dirs_on_disk,
     unreadable |-> unreadable_dirs, now |-> now,
     config_file |-> config_file, observer_starts |-> observer_starts]

ConfigCommit(x) ==
    /\ Commit(x.s)
    /\ config' = x.config
    /\ hot' = x.hot
    /\ reloads' = x.reloads

ConfigUnchanged == <<cache_file, cache_ready, now, ret, last_set, dirs_on_disk, fs,
                     fs_ops, watch_queue, http_scans, temp_file, save_call,
                     unreadable_dirs, app>>

\* The configuration file is rewritten, or saved once more with the content
\* it has; the observer, when it runs, reports the modification and
\* _handle_config_change is scheduled.
WriteConfig(new) ==
    /\ \/ config_file.writes < MaxConfigWrites
       \/ new = config_file.content /\ config_file.writes < MaxConfigSaves
    /\ config_file' = [content |-> new, writes |-> config_file.writes + 1]
    /\ IF hot.watching
       THEN ConfigCommit(handle_config_change(Manager, ConfigEnv(TRUE)))
       ELSE UNCHANGED <<cache, metrics, scan_lock, coros, scan_log, history,
                        in_sync, config, hot, reloads>>
    /\ UNCHANGED ConfigUnchanged

\* The sleep of the configuration task is over.
ConfigTaskWake(observer_starts) ==
    /\ \E i \in 1..Len(coros) :
          /\ coros[i].kind = "config"
          /\ coros[i].pc = "sleeping"
          /\ coros[i].wake <= now
    /\ ConfigCommit(debounced_config_change(Manager, ConfigId,
                                            ConfigEnv(observer_starts)))
    /\ UNCHANGED config_file
    /\ UNCHANGED ConfigUnchanged

\* scan_once has returned to _debounced_config_change, which goes on.
Returned == \E i \in 1..Len(coros) : coros[i].pc = "returned"

ReloadContinue ==
    /\ Returned
    /\ ConfigCommit(run_reload(Manager, ConfigId, ConfigEnv(TRUE)))
    /\ UNCHANGED config_file
    /\ UNCHANGED ConfigUnchanged

\* Time passes when no timer is due.
ConfigAdvance ==
    /\ now < ConfigLastTick
    /\ \A i \in 1..Len(coros) : coros[i].pc = "sleeping" => coros[i].wake > now
    /\ now' = now + 1
    /\ UNCHANGED <<cache, cache_file, cache_ready, ret, last_set>>
    /\ UNCHANGED sys_vars

\* MonitorApp.shutdown awaits HotReloadManager.stop.
HotReloadStop ==
    /\ app.hot_reload = "running"
    /\ ConfigCommit(shutdown_stop(Manager))
    /\ app' = [app EXCEPT
                 !.hot_reload = "stopped",
                 !.was_watching = hot.watching,
                 !.pending = {coros[k].id :
                                k \in {j \in 1..Len(coros) :
                                          coros[j].kind \in {"cert", "config"}
                                             /\ coros[j].pc # "done"}}]
    /\ UNCHANGED <<cache_file, cache_ready, now, ret, last_set, dirs_on_disk, fs,
                   fs_ops, watch_queue, http_scans, temp_file, save_call,
                   unreadable_dirs, config_file>>

\* MonitorApp.shutdown then awaits CertificateScanner.stop.
ScannerStop ==
    /\ app.hot_reload = "stopped"
    /\ app.scanner = "running"
    /\ Commit(scanner_stop(State, fs))
    /\ app' = [app EXCEPT
                 !.scanner = "stopped",
                 !.stopped_at = now,
                 !.loop_pc = coros[Idx(coros, LoopId)].pc]
    /\ UNCHANGED <<config, hot, reloads, config_file>>
    /\ UNCHANGED <<cache_file, cache_ready, now, ret, last_set, dirs_on_disk, fs,
                   fs_ops, watch_queue, http_scans, temp_file, save_call,
                   unreadable_dirs>>

\* The task that scan_once has returned to runs on before any other
\* coroutine of the event loop.
ConfigNext ==
    \/ ~Returned /\ LoopScan
    \/ ~Returned /\ LockGranted
    \/ \E i \in 1..Len(coros), k \in 1..Len(FileOrder) : ~Returned /\ StartFile(i, k)
    \/ \E i \in 1..Len(coros), k \in 1..Len(FileOrder) : ~Returned /\ ParseFile(i, k)
    \/ \E i \in 1..Len(coros), k \in 1..Len(FileOrder) : ~Returned /\ FinishFile(i, k)
    \/ \E i \in 1..Len(coros) : ~Returned /\ ResumeScan(i)
    \/ ~Returned /\ Scrape
    \/ \E new \in ConfigSnapshots : ~Returned /\ WriteConfig(new)
    \/ \E observer_starts \in BOOLEAN : ~Returned /\ ConfigTaskWake(observer_starts)
    \/ ~Returned /\ ConfigAdvance
    \/ ReloadContinue
    \/ ~Returned /\ HotReloadStop
    \/ ~Returned /\ ScannerStop

SpecConfig == ConfigInit /\ [][ConfigNext]_vars

(***************************************************************************)
(* Helpers of the scanner, the metrics and the HTTP API                    *)
(***************************************************************************)
\* metrics.is_weak_key: the algorithm name is lowered, and the family is
\* found by substring tests, "ec" and "ecdsa" first, then "rsa", then "dsa".
\* A name is a sequence of characters.
is_weak_key(key_size, algorithm) ==
    LET upper == <<"A", "B", "C", "D", "E", "F", "G", "H", "I", "J", "K",
                   "L", "M", "N", "O", "P", "Q", "R", "S", "T", "U", "V",
                   "W", "X", "Y", "Z">>
        lowered == <<"a", "b", "c", "d", "e", "f", "g", "h", "i", "j", "k",
                     "l", "m", "n", "o", "p", "q", "r", "s", "t", "u", "v",
                     "w", "x", "y", "z">>
        lower(c) == IF \E k \in 1..Len(upper) : upper[k] = c
                    THEN lowered[CHOOSE k \in 1..Len(upper) : upper[k] = c]
                    ELSE c
        algorithm_lower == [k \in 1..Len(algorithm) |-> lower(algorithm[k])]
        in(sub) == \E i \in 0..(Len(algorithm_lower) - Len(sub)) :
                      SubSeq(algorithm_lower, i + 1, i + Len(sub)) = sub
    IN IF in(<<"e", "c">>) \/ in(<<"e", "c", "d", "s", "a">>) THEN key_size < 256
       ELSE IF in(<<"r", "s", "a">>) THEN key_size < 2048
       ELSE IF in(<<"d", "s", "a">>) THEN key_size < 2048
       ELSE key_size < 2048

\* CertificateScanner._parse_pkcs12_file that leaves the loop at the first
\* password that yields a certificate.
parse_pkcs12_until_success(p12, p12_passwords) ==
    LET bytes(password) == IF password # "" THEN [utf8 |-> password] ELSE None
        RECURSIVE loop(_, _)
        loop(k, st) ==
            IF k > Len(p12_passwords) \/ st.successful_cert # None THEN st
            ELSE LET password_bytes == bytes(p12_passwords[k])
                     tried == [st EXCEPT !.attempts = Append(@, password_bytes)]
                 IN IF password_bytes \notin p12.opens_with
                    THEN loop(k + 1, [tried EXCEPT !.last_exception = k])
                    ELSE IF p12.has_cert
                    THEN loop(k + 1, [tried EXCEPT !.successful_cert = [loaded_by |-> k]])
                    ELSE loop(k + 1, tried)
        end == loop(1, [attempts |-> <<>>, successful_cert |-> None,
                        last_exception |-> 0])
    IN [attempts |-> end.attempts,
        result |-> IF end.successful_cert # None THEN end.successful_cert ELSE Raised]

\* CertificateScanner._parse_pkcs12_file: the loop over config.p12_passwords.
\* An empty password is passed as None, any other as its UTF-8 bytes;
\* load_key_and_certificates raises for a password the file does not open
\* with, and returns no certificate for a file that holds none.  The first
\* certificate obtained is kept (loaded_by tells the attempt it came from),
\* the loop goes on, and ValueError is raised when no certificate was kept.
parse_pkcs12_file(p12, p12_passwords) ==
    LET bytes(password) == IF password # "" THEN [utf8 |-> password] ELSE None
        RECURSIVE loop(_, _)
        loop(k, st) ==
            IF k > Len(p12_passwords) THEN st
            ELSE LET password_bytes == bytes(p12_passwords[k])
                     tried == [st EXCEPT !.attempts = Append(@, password_bytes)]
                 IN IF password_bytes \notin p12.opens_with
                    THEN loop(k + 1, [tried EXCEPT !.last_exception = k])
                    ELSE IF p12.has_cert /\ st.successful_cert = None
                    THEN loop(k + 1, [tried EXCEPT !.successful_cert = [loaded_by |-> k]])
                    ELSE loop(k + 1, tried)
        end == loop(1, [attempts |-> <<>>, successful_cert |-> None,
                        last_exception |-> 0])
    IN [attempts |-> end.attempts,
        result |-> IF end.successful_cert # None THEN end.successful_cert ELSE Raised]

\* What the ipaddress module makes of the strings of the model: whether the
\* string has a "/", whether ip_address or ip_network accepts it, and the
\* client addresses that are in the network.
ip_strings ==
    [s \in {"127.0.0.1", "::1", "10.0.0.5", "10.0.0.0/8", "bogus"} |->
        [cidr |-> s = "10.0.0.0/8",
         valid |-> s # "bogus",
         members |-> IF s = "10.0.0.0/8" THEN {"10.0.0.5"} ELSE {}]]

\* Config.validate_allowed_ips without the localhost entries.
validate_without_localhost(v) == SelectSeq(v, LAMBDA ip_str : ip_strings[ip_str].valid)

\* Config.validate_allowed_ips: the strings that do not parse are dropped,
\* and 127.0.0.1 and ::1 are appended when they are not in the list.
validate_allowed_ips(v) ==
    LET validated_ips == SelectSeq(v, LAMBDA ip_str : ip_strings[ip_str].valid)
        listed(ips) == {ips[k] : k \in 1..Len(ips)}
        with_v4 == IF "127.0.0.1" \in listed(validated_ips) THEN validated_ips
                   ELSE Append(validated_ips, "127.0.0.1")
    IN IF "::1" \in listed(with_v4) THEN with_v4 ELSE Append(with_v4, "::1")

\* ip_whitelist_middleware: the request is passed on when the allow-list is
\* disabled or the client address is unknown (""); otherwise when an entry
\* of allowed_ips is the network the address is in or the address itself.
ip_whitelist_middleware(cfg, client_ip) ==
    IF ~cfg.enable_ip_whitelist THEN "call_next"
    ELSE IF client_ip = "" THEN "call_next"
    ELSE IF \E k \in 1..Len(cfg.allowed_ips) :
               LET allowed_ip == cfg.allowed_ips[k] IN
               IF ip_strings[allowed_ip].cidr
               THEN ip_strings[allowed_ip].valid
                       /\ client_ip \in ip_strings[allowed_ip].members
               ELSE client_ip = allowed_ip
    THEN "call_next"
    ELSE "403"

\* GET /config that returns the monitored directories as they are.
get_config_full_paths(cfg) ==
    [cfg EXCEPT
       !.p12_passwords = <<<<"***REDACTED***", Len(cfg.p12_passwords), "passwords">>>>,
       !.allowed_ips = <<<<"***REDACTED***", Len(cfg.allowed_ips), "IPs/networks">>>>,
       !.tls_key = "***REDACTED***"]

\* GET /config: the dictionary of the scanner's configuration with
\* p12_passwords and allowed_ips replaced by one string that tells their
\* number, tls_key by a fixed string, and every monitored directory by the
\* last component of its path.  A path is the sequence of its components.
get_config(cfg) ==
    [cfg EXCEPT
       !.p12_passwords = <<<<"***REDACTED***", Len(cfg.p12_passwords), "passwords">>>>,
       !.allowed_ips = <<<<"***REDACTED***", Len(cfg.allowed_ips), "IPs/networks">>>>,
       !.tls_key = "***REDACTED***",
       !.certificate_directories =
           [k \in 1..Len(cfg.certificate_directories) |->
              LET dir_path == cfg.certificate_directories[k]
              IN <<"***", IF dir_path = <<>> THEN "" ELSE dir_path[Len(dir_path)]>>]]

\* The longest list of PKCS#12 passwords and of allowed addresses.
MaxPasswords == 3
MaxAllowed == 2

\* The calls made of the helpers: the key algorithms are the names the tests
\* use and the class names of the public keys that the scanner passes, each
\* with the family of the key; a PKCS#12 file opens with some password bytes
\* and holds a certificate or not; a configuration is built by the validator.
PureInputs ==
    LET Seqs(S, n) == UNION {[1..m -> S] : m \in 0..n}
        public_key == <<"P", "u", "b", "l", "i", "c", "K", "e", "y">>
        elliptic_curve == <<"E", "l", "l", "i", "p", "t", "i", "c",
                            "C", "u", "r", "v", "e">>
        algorithms ==
            {[family |-> "EC", algorithm |-> <<"E", "C", "D", "S", "A">>],
             [family |-> "EC", algorithm |-> <<"E", "C">>],
             [family |-> "EC", algorithm |-> <<"E", "C">> \o public_key],
             [family |-> "EC", algorithm |-> <<"_">> \o elliptic_curve \o public_key],
             [family |-> "RSA", algorithm |-> <<"R", "S", "A">>],
             [family |-> "RSA", algorithm |-> <<"R", "S", "A">> \o public_key],
             [family |-> "RSA", algorithm |-> <<"_", "R", "S", "A">> \o public_key],
             [family |-> "DSA", algorithm |-> <<"D", "S", "A">>],
             [family |-> "DSA", algorithm |-> <<"D", "S", "A">> \o public_key],
             [family |-> "DSA", algorithm |-> <<"_", "D", "S", "A">> \o public_key],
             [family |-> "other", algorithm |-> <<"U", "N", "K", "N", "O", "W", "N">>],
             [family |-> "other",
              algorithm |-> <<"E", "d", "2", "5", "5", "1", "9">> \o public_key]}
        api_configs(lists) ==
            [enable_ip_whitelist : BOOLEAN,
             allowed_ips : {validate_allowed_ips(v) : v \in lists},
             p12_passwords : {<<>>, <<"a">>, <<"b">>},
             tls_key : {"k1", "k2"},
             certificate_directories : {<<<<"etc", "ssl", "certs">>>>,
                                        <<<<"srv", "certs">>>>,
                                        <<<<"srv", "keys">>>>},
             port : {3200}]
    IN {[fn |-> "is_weak_key", family |-> a.family, algorithm |-> a.algorithm,
         key_size |-> n] :
           a \in algorithms, n \in {0, 160, 255, 256, 384, 1024, 2047, 2048, 4096}}
       \cup {[fn |-> "parse_pkcs12_file", p12 |-> [opens_with |-> o, has_cert |-> c],
              p12_passwords |-> p] :
                o \in {{}, {None}, {[utf8 |-> "a"]}, {[utf8 |-> "b"]},
                       {[utf8 |-> "a"], [utf8 |-> "b"]}},
                c \in BOOLEAN, p \in Seqs({"", "a", "b"}, MaxPasswords)}
       \cup {[fn |-> "request", listed |-> v, client_ip |-> c,
              config |-> [enable_ip_whitelist |-> e,
                          allowed_ips |-> validate_allowed_ips(v)]] :
                v \in Seqs(DOMAIN ip_strings, MaxAllowed), e \in BOOLEAN,
                c \in {"", "127.0.0.1", "::1", "10.0.0.5"}}
       \cup {[fn |-> "get_config", config |-> c] :
                c \in api_configs({<<>>, <<"10.0.0.5">>, <<"10.0.0.0/8">>})}

(***************************************************************************)
(* SpecPure: calls of the helpers                                          *)
(***************************************************************************)
\* One call has been made, with any of the inputs.
PureInit ==
    /\ cache = EmptyCache
    /\ cache_file = NoFile
    /\ cache_ready = TRUE
    /\ now = StartTime
    /\ last_set = None
    /\ SysInit
    /\ coros = <<>>
    /\ ret \in {[op |-> "call", key |-> in, value |-> None] : in \in PureInputs}

\* The call of fn that has been made returns value.
Return(fn, value) ==
    /\ ret.op = "call"
    /\ ret.key.fn = fn
    /\ ret' = [op |-> fn, key |-> ret.key, value |-> value]
    /\ UNCHANGED <<cache, cache_file, cache_ready, now, last_set>>
    /\ UNCHANGED sys_vars

PureNext ==
    \/ Return("is_weak_key", is_weak_key(ret.key.key_size, ret.key.algorithm))
    \/ Return("parse_pkcs12_file",
              parse_pkcs12_file(ret.key.p12, ret.key.p12_passwords))
    \/ Return("request", ip_whitelist_middleware(ret.key.config, ret.key.client_ip))
    \/ Return("get_config", get_config(ret.key.config))

SpecPure == PureInit /\ [][PureNext]_vars

(***************************************************************************)
(* Claims about the cache                                                  *)
(***************************************************************************)
\* The step is a call of get for key.
GetStep(key) ==
    /\ cache'.access_count = cache.access_count + 1
    /\ ret'.op = "get"
    /\ ret'.key = key

\* The entry stored for the key of the last set is the one that set created.
StoresLastSet ==
    /\ HasKey(cache.memory_cache, last_set.key)
    /\ Lookup(cache.memory_cache, last_set.key).timestamp = last_set.ts
    /\ Lookup(cache.memory_cache, last_set.key).ttl = last_set.ttl
    /\ Lookup(cache.memory_cache, last_set.key).value = last_set.value

\* The last set was called with a value set can admit.
Admissible ==
    /\ last_set # None
    /\ last_set.value.json
    /\ SerializedSize(last_set.value) <= max_size

\* C3: the store's current_size equals the sum of the size fields of the
\* entries currently stored, in every reachable state of the cache.
CurrentSizeIsSumOfSizes == cache.current_size = SumSizes(cache.memory_cache)

\* C3 witness: a get has just dropped an expired entry (a miss on the key of
\* the last set, whose ttl has run out) while another entry is still stored.
ExpiredGetLeftAnEntry ==
    /\ ret.op = "get"
    /\ ret.value = None
    /\ Admissible
    /\ ret.key = last_set.key
    /\ now > last_set.ts + last_set.ttl
    /\ Len(cache.memory_cache) = 1
    /\ cache.current_size > 0

\* C4: after any sequence of set calls the cache's current_size is at most
\* max_bytes.
CurrentSizeWithinMax == cache.current_size <= max_size

\* C5 as stated: a get directly after set(K, V) returns V, and every get of K
\* at a time now >= ts(set) + ttl, with no set in between, returns absent, the
\* instant now = ts + ttl included.
AbsentFromTtlOn ==
    [][Admissible /\ GetStep(last_set.key) =>
            /\ ret.op = "set" => ret'.value = last_set.value
            /\ now >= last_set.ts + last_set.ttl => ret'.value = None]_vars

\* C5 amended: a get directly after set(K, V) returns V; every get of K at a
\* time now > ts(set) + ttl, with no set in between, returns absent; at the
\* instant now = ts + ttl the entry is not expired yet and a get of the stored
\* entry still returns V.
AbsentAfterTtl ==
    [][Admissible /\ GetStep(last_set.key) =>
            /\ ret.op = "set" => ret'.value = last_set.value
            /\ now > last_set.ts + last_set.ttl => ret'.value = None
            /\ (now = last_set.ts + last_set.ttl /\ StoresLastSet)
                  => ret'.value = last_set.value]_vars

\* C5 witness: a get of the key of the last set, made after its ttl has run
\* out, has returned absent and counted as a miss.
GetAfterTtlMissed ==
    /\ ret.op = "get"
    /\ ret.value = None
    /\ Admissible
    /\ ret.key = last_set.key
    /\ now > last_set.ts + last_set.ttl
    /\ cache.hit_count < cache.access_count

(***************************************************************************)
(* Claims about the scanner and hot reload                                 *)
(***************************************************************************)
Scanning(cs) == {i \in 1..Len(cs) : cs[i].pc = "scanning"}

Waiting(lock, id) == \E k \in 1..Len(lock.waiters) : lock.waiters[k] = id

\* C1: no two scans execute concurrently: a step in which a scan_once call
\* enters its body (resets the scan metrics, starts on the directories) is
\* taken only when no other call is inside the body, and at most one caller
\* is inside the body after every step.
NoConcurrentScans ==
    [][/\ scan_log'.started > scan_log.started => Scanning(coros) = {}
       /\ Cardinality(Scanning(coros')) <= 1]_vars

\* C1 witness: one caller is inside the scan body while two other callers of
\* scan_once are held at the lock.
TwoCallersHeldOff ==
    /\ Scanning(coros) # {}
    /\ Len(scan_lock.waiters) = 2
    /\ \A k \in 1..2 : coros[Idx(coros, scan_lock.waiters[k])].pc = "lock_wait"

\* C2: when a scan_once completes, ssl_certs_parsed_total plus
\* ssl_cert_parse_errors_total, as the next scrape exposes them, equal the
\* number of candidate files the scan considered over all its directories.
ParsedPlusErrorsIsFiles ==
    [][scan_log'.finished > scan_log.finished =>
          metrics'.certs_parsed_total + metrics'.parse_errors_total
              = scan_log'.summary.total_files]_vars

\* The event is one for which the whole cache and all metrics are reloaded.
ReloadCase(e) == e.event_type \in {"created", "deleted", "moved"} \/ ~e.existed

\* The step is the action of the debounced task of event n, and the action
\* is the full reload: one cache.clear, clear_all_certificate_metrics and
\* reset_scan_metrics, then one scan_once, which has entered its body or
\* waits for the lock.
ActsNow(n) == ~history[n].acted /\ history'[n].acted

FullReloadDone(n) ==
    /\ now >= history[n].at + DEBOUNCE
    /\ history'[n].calls = FullReload
    /\ cache'.memory_cache = <<>>
    /\ cache'.current_size = 0
    /\ metrics'.series = {}
    /\ metrics'.duplicate_names = {}
    /\ metrics'.certs_parsed_total = 0
    /\ IF Waiting(scan_lock', n)
       THEN scan_log'.started = scan_log.started
       ELSE scan_log'.started = scan_log.started + 1

\* C6: after the debounce period, an event of kind created (closed included),
\* deleted or moved, and a modified event whose file no longer exists,
\* performs one cache.clear, then clear_all_certificate_metrics and
\* reset_scan_metrics, then one scan_once, in that order.
FullReloadAfterDebounce ==
    [][\A n \in 1..Len(history) :
          ActsNow(n) /\ ReloadCase(history'[n]) => FullReloadDone(n)]_vars

\* C6 witness: the task of a modified event has acted after the file was
\* removed, and made the four calls.
ModifiedGoneReloaded ==
    \E n \in 1..Len(history) :
        /\ history[n].acted
        /\ history[n].event_type = "modified"
        /\ ~history[n].existed
        /\ history[n].calls = FullReload

\* C7: after the debounce period, a modified event for a file that still
\* exists clears the entire cache, clears and resets the metrics once each,
\* and triggers one immediate scan_once.
ModifiedReloadsAll ==
    [][\A n \in 1..Len(history) :
          (ActsNow(n) /\ ~ReloadCase(history'[n])) => FullReloadDone(n)]_vars

PendingFor(cs, f) ==
    {cs[i] : i \in {j \in 1..Len(cs) : Pending(cs[j]) /\ cs[j].file_path = f}}

\* C8: each path has at most one debounced task that is neither finished
\* nor cancelled; the arrival of an event for a path cancels the task
\* pending for that path and leaves the pending tasks of the other paths
\* as they were.
OnePendingTaskPerPath ==
    [][/\ \A f \in Files : Cardinality(PendingFor(coros', f)) <= 1
       /\ Len(history') > Len(history) =>
            LET e == history'[Len(history')] IN
            /\ \A c \in PendingFor(coros, e.file_path) :
                    /\ history'[c.id].cancelled
                    /\ \A i \in 1..Len(coros') : coros'[i].id # c.id
            /\ \A f \in Files \ {e.file_path} :
                    PendingFor(coros', f) = PendingFor(coros, f)]_vars

\* C8 witness: a second event for a path has cancelled the task the first
\* had armed, and its own task is the one pending for the path.
SecondEventCancelledFirst ==
    /\ Len(history) = 2
    /\ history[1].file_path = history[2].file_path
    /\ history[1].cancelled
    /\ \E c \in PendingFor(coros, history[2].file_path) : c.id = 2

\* The events for the path of event n that arrived after it.
Later(n) ==
    {m \in (n + 1)..Len(history) : history[m].file_path = history[n].file_path}

Min(S) == CHOOSE m \in S : \A x \in S : m <= x

\* C9: in a burst of events for one path, each arriving less than the
\* debounce period after the previous one, every task but the last is
\* cancelled before it acts; the task of the last event is not cancelled and
\* either has acted, once the debounce period was over, as its event's kind
\* requires, or is armed to act with that kind at that time.
BurstCollapsesToLastEvent ==
    \A n \in 1..Len(history) :
        LET e == history[n] IN
        /\ (Later(n) # {} /\ history[Min(Later(n))].at - e.at < DEBOUNCE)
              => e.cancelled /\ ~e.acted
        /\ Later(n) = {} =>
              /\ ~e.cancelled
              /\ e.acted =>
                    /\ e.acted_at = e.at + DEBOUNCE
                    /\ e.calls = IF ReloadCase(e) THEN FullReload
                                 ELSE <<"cache.delete">>
              /\ ~e.acted =>
                    \E i \in 1..Len(coros) :
                        /\ coros[i].id = n
                        /\ coros[i].pc = "sleeping"
                        /\ coros[i].event_type = e.event_type
                        /\ coros[i].wake = e.at + DEBOUNCE
                        /\ now <= coros[i].wake

\* C9 witness: two events for one path arrived at the same time; the task
\* of the first was cancelled without acting and the task of the second has
\* acted.
BurstOfTwoActedOnce ==
    /\ Len(history) = 2
    /\ history[1].file_path = history[2].file_path
    /\ history[2].at - history[1].at < DEBOUNCE
    /\ history[1].cancelled /\ ~history[1].acted
    /\ history[2].acted

\* The last certificate event was the creation of a certificate or a
\* deletion, it has been dispatched in time for its debounce period to end,
\* and the environment makes no further change.
LastChangeDelivered ==
    /\ fs_ops = MaxFsOps
    /\ watch_queue = <<>>
    /\ history # <<>>
    /\ LET e == history[Len(history)] IN
        /\ e.at + DEBOUNCE <= LastTick
        /\ \/ e.raw = "created" /\ fs[e.file_path].present /\ fs[e.file_path].ok
           \/ e.raw = "deleted" /\ ~fs[e.file_path].present

\* Nothing is left to run: no scan is in progress or waited for, and every
\* debounced task has finished.
Idle ==
    /\ scan_lock.waiters = <<>>
    /\ \A i \in 1..Len(coros) :
          \/ coros[i].pc \in {"idle", "done"}
          \/ coros[i].kind = "loop" /\ coros[i].pc = "sleeping" /\ coros[i].wake > now

\* C10: with hot reload running, after a certificate file was added or
\* deleted and no further event arrives, the system reaches a state where
\* /metrics exposes series for exactly the certificate files on disk and
\* ssl_certs_parsed_total equals their number: when nothing is left to run,
\* such a state has been passed since the change.
ReachesSyncAfterChange == (LastChangeDelivered /\ Idle) => in_sync

(***************************************************************************)
(* Claims about eviction                                                   *)
(***************************************************************************)
\* The step is a set that stores a value under a key that was not stored.
SetOfNewKey ==
    /\ ret'.op = "set"
    /\ Serializable(last_set'.value)
    /\ ret'.key = last_set'.key
    /\ ~HasKey(cache.memory_cache, ret'.key)
    /\ HasKey(cache'.memory_cache, ret'.key)

\* The number of entries that come before entry i when the entries are
\* ordered by ascending last_access, ties in insertion order.
LruRank(entries, i) ==
    Cardinality({j \in 1..Len(entries) :
                    \/ entries[j].last_access < entries[i].last_access
                    \/ /\ entries[j].last_access = entries[i].last_access
                       /\ j < i})

\* The keys of the first n entries in that order, and their total size.
LruPrefix(entries, n) ==
    {entries[i].key : i \in {j \in 1..Len(entries) : LruRank(entries, j) < n}}

LruPrefixSize(entries, n) ==
    SumSizes(SelectSeq(entries, LAMBDA e : e.key \in LruPrefix(entries, n)))

\* The lengths of the prefixes whose removal makes room for S more bytes.
PrefixesMakingRoom(c, S) ==
    {n \in 0..Len(c.memory_cache) :
        c.current_size - LruPrefixSize(c.memory_cache, n) + S <= max_size}

StoredKeys(c) == {c.memory_cache[i].key : i \in 1..Len(c.memory_cache)}

\* C13: a set of a new entry of size S evicts exactly the shortest prefix of
\* the stored entries, ordered by ascending last_access with ties in
\* insertion order, whose removal makes current_size + S <= max_bytes, and
\* evicts nothing when current_size + S <= max_bytes already holds.
EvictsShortestLruPrefix ==
    [][SetOfNewKey =>
          LET S == SerializedSize(last_set'.value)
              fits == PrefixesMakingRoom(cache, S)
          IN fits # {} =>
               LET n == CHOOSE m \in fits : \A k \in fits : m <= k
               IN /\ StoredKeys(cache') =
                        (StoredKeys(cache) \ LruPrefix(cache.memory_cache, n))
                            \cup {ret'.key}
                  /\ cache.current_size + S <= max_size
                        => StoredKeys(cache') = StoredKeys(cache) \cup {ret'.key}]_vars

\* C13 witness: the last set has evicted the entry inserted second and kept
\* the entry inserted first, which had been read since: two entries are
\* stored, the older one with a last_access, and the cache was full before.
EvictedSecondKeptFirstRead ==
    /\ ret.op = "set"
    /\ Len(cache.memory_cache) = 2
    /\ cache.memory_cache[2].key = ret.key
    /\ cache.memory_cache[1].last_access > 0
    /\ cache.memory_cache[1].timestamp < cache.memory_cache[2].timestamp
    /\ cache.current_size + SerializedSize(SmallValue) > max_size

\* C14: a set whose value alone serializes to more than max_bytes is
\* rejected: the value is not stored under the key, and every entry stored
\* before the call is stored unchanged after it.
OversizedSetRejected ==
    [][(/\ ret'.op = "set"
        /\ Serializable(last_set'.value)
        /\ SerializedSize(last_set'.value) > max_size)
       => /\ \A i \in 1..Len(cache.memory_cache) :
                /\ HasKey(cache'.memory_cache, cache.memory_cache[i].key)
                /\ Lookup(cache'.memory_cache, cache.memory_cache[i].key)
                      = cache.memory_cache[i]
          /\ ~HasKey(cache.memory_cache, ret'.key)
                => ~HasKey(cache'.memory_cache, ret'.key)]_vars

(***************************************************************************)
(* Claims about the cache statistics                                       *)
(***************************************************************************)
\* C18: every get increases accesses by exactly one and hits by one iff it
\* returns a value, and a get of an absent or expired key returns absent;
\* set, delete, clear and cleanup_expired change neither counter, so that
\* accesses - hits goes up by one exactly at the gets that return absent.
StatsCountGetsOnly ==
    [][IF ret'.op = "get"
       THEN /\ cache'.access_count = cache.access_count + 1
            /\ cache'.hit_count =
                 cache.hit_count + (IF ret'.value # None THEN 1 ELSE 0)
            /\ (\/ ~HasKey(cache.memory_cache, ret'.key)
                \/ is_expired(Lookup(cache.memory_cache, ret'.key), now))
                  => ret'.value = None
            /\ (cache'.access_count - cache'.hit_count) =
                 (cache.access_count - cache.hit_count)
                    + (IF ret'.value = None THEN 1 ELSE 0)
       ELSE cache_ready =>
               /\ cache'.access_count = cache.access_count
               /\ cache'.hit_count = cache.hit_count]_vars

\* C18 witness: after a get that hit, a get of the key of the last set, made
\* after its ttl ran out, has returned absent: one more access than hits.
HitThenExpiredMiss ==
    /\ ret.op = "get"
    /\ ret.value = None
    /\ Admissible
    /\ ret.key = last_set.key
    /\ now > last_set.ts + last_set.ttl
    /\ cache.hit_count = 1
    /\ cache.access_count = 2

(***************************************************************************)
(* Claims about persistence                                                *)
(***************************************************************************)
\* The step initializes a fresh cache after a save_to_disk or a close that
\* replaced cache.json; save_call.memory is the cache that call saved.
InitializeAfterSave ==
    /\ ~cache_ready
    /\ cache_ready'
    /\ save_call.ok

NotExpiredAt(entries, t) == SelectSeq(entries, LAMBDA e : ~is_expired(e, t))

Malformed(file) ==
    /\ file # NoFile
    /\ \/ ~file.parseable
       \/ \E i \in 1..Len(file.entries) : IsBadEntry(file.entries[i])

\* C16: when initialize finds a malformed persisted file the cache continues
\* empty, with zero entries and current_size 0, even if entries of the file
\* before the malformed part were well-formed, and the file is deleted.
MalformedFileLeavesEmptyCache ==
    [][(~cache_ready /\ cache_ready' /\ Malformed(cache_file)) =>
          /\ cache'.memory_cache = <<>>
          /\ cache'.current_size = 0
          /\ cache_file' # cache_file => cache_file' = NoFile]_vars

\* A save_to_disk call is between its first and its last step.
Saving == save_call.pc \in {"open", "dump", "rename"}

\* C17: at every point of a save_to_disk or close, one that fails part-way
\* included, cache.json is the previous complete snapshot or the new complete
\* snapshot and never a partial write; a save that fails raises nothing (the
\* caller of save_to_disk goes on) and no step of a save changes the entries
\* or the counters in memory.
SnapshotReplacedAtomically ==
    [][/\ cache_file' # cache_file =>
             /\ save_call.pc = "rename"
             /\ cache_file' = save_call.data
       /\ cache_file' # NoFile => ~Malformed(cache_file')
       /\ Saving => cache' = cache
       /\ (Saving /\ ~save_call.closing /\ cache_ready') =>
             save_call'.pc # "closed"]_vars

\* C17 witness: a save_to_disk has failed while json.dump was writing: the
\* temporary file holds a partial document, cache.json is still the snapshot
\* of the previous run, which differs from the one being saved, and the
\* program goes on.
FailedDumpKeptOldSnapshot ==
    /\ cache_ready
    /\ save_call.pc = "idle"
    /\ save_call.n = 1
    /\ ~save_call.ok
    /\ temp_file = GarbageFile
    /\ cache_file = PersistedFile(<<StalePersisted, LivePersisted>>)
    /\ save_call.data # cache_file

(***************************************************************************)
(* Claims about configuration reloads                                      *)
(***************************************************************************)
\* The new snapshot differs from the old one in a monitored directory added
\* or removed, the P12 passwords, the excluded directories, the exclude
\* patterns, or a scan interval that differs by more than 60 s.
Material(old, new) ==
    \/ DirSet(new) \ DirSet(old) # {}
    \/ DirSet(old) \ DirSet(new) # {}
    \/ old.p12_passwords # new.p12_passwords
    \/ old.exclude_directories # new.exclude_directories
    \/ old.exclude_file_patterns # new.exclude_file_patterns
    \/ old.scan_interval_seconds - new.scan_interval_seconds > 60
    \/ new.scan_interval_seconds - old.scan_interval_seconds > 60

\* The number of times call occurs in calls.
Count(calls, call) == Cardinality({k \in 1..Len(calls) : calls[k] = call})

\* C19: a configuration reload whose new snapshot differs materially from the
\* current one calls Cache.Clear(), also when the only difference is an added
\* directory.
MaterialChangeClearsCache ==
    \A n \in 1..Len(reloads) :
        (reloads[n].ended = "done" /\ Material(reloads[n].old, reloads[n].new))
            => Count(reloads[n].calls, "cache.clear") >= 1

\* C20: a configuration reload that detects at least one material change
\* triggers exactly one immediate scan_once, however many kinds of change it
\* contains.
MaterialChangeScansOnce ==
    \A n \in 1..Len(reloads) :
        (reloads[n].ended = "done" /\ Material(reloads[n].old, reloads[n].new))
            => Count(reloads[n].calls, "scanner.scan_once") = 1

(***************************************************************************)
(* Claims about the metrics                                                *)
(***************************************************************************)
\* The number of times the reloads have called call.
Called(rs, call) ==
    Cardinality(UNION {{<<n, k>> : k \in {j \in 1..Len(rs[n].calls) :
                                              rs[n].calls[j] = call}} :
                          n \in 1..Len(rs)})

\* In this step clear_all_certificate_metrics is called and a scan that comes
\* after it returns without having found a certificate.
ClearedThenScannedNothing ==
    /\ Called(reloads', "metrics.clear_all_certificate_metrics")
          > Called(reloads, "metrics.clear_all_certificate_metrics")
    /\ scan_log'.finished > scan_log.finished
    /\ scan_log'.summary.total_parsed = 0

PathsTheScanReports(serial) ==
    {f \in Files : /\ fs[f].present
                   /\ fs[f].ok
                   /\ fs[f].serial = serial
                   /\ DirOf(f) \in DirSet(config)
                   /\ DirOf(f) \notin config.exclude_directories
                   /\ \A pattern \in config.exclude_file_patterns :
                          ~re_search(pattern, FileName(f))}

\* C12: at a scrape that follows a completed scan, for every configuration of
\* the monitored directories, ssl_cert_duplicate_count is the number of
\* serials the scan reported at two or more distinct paths; a serial seen at
\* one path only does not count.
DuplicateCountIsSerialsAtTwoPaths ==
    (/\ reloads = <<>>
     /\ scan_log.finished > 0
     /\ \A i \in 1..Len(coros) : coros[i].pc \notin {"scanning", "lock_wait"})
       => update_duplicate_metrics(metrics).duplicate_count =
             Cardinality({serial \in Serials :
                             Cardinality(PathsTheScanReports(serial)) >= 2})

(***************************************************************************)
(* Claims about the watcher after a configuration reload                   *)
(***************************************************************************)
\* The step ends a run of _debounced_config_change past its sleep.
EndsReload ==
    /\ reloads' # <<>>
    /\ reloads'[Len(reloads')].ended # "running"
    /\ \/ Len(reloads) < Len(reloads')
       \/ reloads[Len(reloads)].ended = "running"

\* C21: after a configuration reload in which the set of monitored
\* directories changed, the labeled certificate metrics have been cleared and
\* the scan metrics reset, and the coordinator is watching, with a watch on
\* every directory of the new snapshot that exists.
DirectoryChangeLeavesWatching ==
    [][LET r == reloads'[Len(reloads')] IN
       (EndsReload /\ (r.changes.dirs_added # {} \/ r.changes.dirs_removed # {}))
          => /\ Count(r.calls, "metrics.clear_all_certificate_metrics") >= 1
             /\ Count(r.calls, "metrics.reset_scan_metrics") >= 1
             /\ hot'.watching
             /\ (DirSet(r.new) \cap dirs_on_disk) \subseteq hot'.watched_paths]_vars

(***************************************************************************)
(* Claims about the configuration snapshot a scan reads                    *)
(***************************************************************************)
\* Coroutine i is inside the body of scan_once and in this step the gather of
\* its directory returns: scan_once goes on to its next directory, where
\* _scan_directory reads the exclusion rules and the worker count, or builds
\* its summary and returns.
ScanStep(i) ==
    /\ coros[i].pc = "scanning"
    /\ i <= Len(coros')
    /\ coros'[i].id = coros[i].id
    /\ \/ coros'[i].pc # "scanning"
       \/ coros'[i].sc.dir # coros[i].sc.dir

\* C22: a scan_once that overlaps a replacement of the configuration snapshot
\* reads its directory list, its exclusion rules, its worker count and its P12
\* passwords from the snapshot it began with, and the directories_scanned of
\* its summary is the length of that snapshot's directory list.
ScanReadsOneSnapshot ==
    [][\A i \in 1..Len(coros) :
          ScanStep(i) =>
             LET began == coros[i].sc.snapshot IN
             /\ config.certificate_directories = began.certificate_directories
             /\ config.exclude_directories = began.exclude_directories
             /\ config.exclude_file_patterns = began.exclude_file_patterns
             /\ config.workers = began.workers
             /\ config.p12_passwords = began.p12_passwords
             /\ (scan_log'.finished > scan_log.finished
                   => scan_log'.summary.directories_scanned =
                         Len(began.certificate_directories))]_vars

(***************************************************************************)
(* Claims about directories that cannot be opened                          *)
(***************************************************************************)
\* The entry scan_once writes for a directory it failed to scan.
ErrorEntry ==
    [error |-> TRUE, files_processed |-> 0, certificates_parsed |-> 0,
     parse_errors |-> 1]

\* C26: in the result of a finished scan, every directory that is missing or
\* cannot be listed has an entry with error set, files_processed 0,
\* certificates_parsed 0 and parse_errors 1, and every other directory of the
\* same scan has an entry of its own without an error.
UnopenableDirectoryGetsErrorEntry ==
    scan_log.finished > 0 =>
       \A d \in DOMAIN scan_log.directories :
          IF d \notin dirs_on_disk \/ d \in unreadable_dirs
          THEN scan_log.directories[d] = ErrorEntry
          ELSE ~scan_log.directories[d].error

(***************************************************************************)
(* Claims about files that fail to be processed                            *)
(***************************************************************************)
\* The gather of the file tasks of a directory returns to scan_once of
\* coroutine i, which goes on to the next directory or returns.
GatherReturns(i) ==
    /\ ScanStep(i)
    /\ \A k \in 1..Len(coros[i].sc.tasks) : coros[i].sc.tasks[k].pc = "done"
    /\ coros'[i].pc = "scanning" \/ scan_log'.finished > scan_log.finished

\* C25: when the tasks of a directory have returned, every task that did not
\* produce a certificate has made exactly one record_parse_error call, the
\* directory's parse_errors is the number of those tasks, and every candidate
\* of the directory is counted in files_processed, the others as parsed.
FailedFileIsRecordedOnce ==
    [][\A i \in 1..Len(coros) :
          GatherReturns(i) =>
             LET tasks == coros[i].sc.tasks
                 failed == {k \in 1..Len(tasks) : ~IsCert(tasks[k].result)}
                 directory == coros[i].sc.directories[coros[i].sc.dir]
                 entry == IF coros'[i].pc = "scanning"
                          THEN coros'[i].sc.entries[directory]
                          ELSE scan_log'.directories[directory]
             IN /\ \A k \in failed : tasks[k].records = 1
                /\ entry.parse_errors = Cardinality(failed)
                /\ entry.files_processed = Len(tasks)
                /\ entry.certificates_parsed = Len(tasks) - Cardinality(failed)]_vars

(***************************************************************************)
(* Claims about stopping the components                                    *)
(***************************************************************************)
\* C23: once HotReloadManager.stop has returned, the manager is not watching,
\* its set of watched paths is empty, and no certificate or configuration
\* task that was pending at the call is left to run.
StopLeavesNothingWatchedOrPending ==
    app.hot_reload = "stopped" =>
       /\ ~hot.watching
       /\ hot.watched_paths = {}
       /\ \A i \in 1..Len(coros) : coros[i].id \notin app.pending

\* C24: once CertificateScanner.stop has returned, the task of _scan_loop has
\* finished: it is not on the event loop, it does not wait for the scan lock
\* and it does not hold it, so that no periodic scan can start.
NoPeriodicScanAfterStop ==
    app.scanner = "stopped" =>
       /\ \A i \in 1..Len(coros) : coros[i].kind # "loop"
       /\ LoopId \notin {scan_lock.waiters[k] : k \in 1..Len(scan_lock.waiters)}
       /\ scan_lock.locked => \E i \in 1..Len(coros) : coros[i].pc = "scanning"

\* The scanner was stopped while the periodic scan was in progress, and the
\* time at which the loop would have scanned again has come.
StoppedDuringPeriodicScan ==
    /\ app.scanner = "stopped"
    /\ app.loop_pc = "scanning"
    /\ now >= app.stopped_at + config.scan_interval_seconds

(***************************************************************************)
(* Claims about the helpers                                                *)
(***************************************************************************)
\* The attempts of the last _parse_pkcs12_file call that yielded a certificate.
Opening ==
    {k \in 1..Len(ret.key.p12_passwords) :
        /\ ret.key.p12.has_cert
        /\ ret.value.attempts[k] \in ret.key.p12.opens_with}

WeakKeyFollowsFamilyThreshold ==
    ret.op = "is_weak_key" =>
       (ret.value <=> ret.key.key_size < (IF ret.key.family = "EC" THEN 256 ELSE 2048))

\* C29: the allow-list middleware passes every request whose client address
\* is 127.0.0.1 to its handler, whatever the configuration.
LocalhostIsNeverForbidden ==
    (ret.op = "request" /\ ret.key.client_ip = "127.0.0.1") => ret.value = "call_next"

\* The allow-list is enabled, the configured list does not name 127.0.0.1,
\* and a request from 127.0.0.1 was passed on.
LocalhostPassedThoughNotListed ==
    /\ ret.op = "request"
    /\ ret.key.client_ip = "127.0.0.1"
    /\ ret.key.config.enable_ip_whitelist
    /\ \A k \in 1..Len(ret.key.listed) : ret.key.listed[k] # "127.0.0.1"
    /\ ret.key.listed # <<>>
    /\ ret.value = "call_next"

\* The configurations that differ from c at most in the passwords (not in
\* their number), in tls_key, in the allowed addresses (not in their number)
\* and in the parents of the monitored directories (not in their last
\* components).
SameButSecrets(c) ==
    {i \in PureInputs :
        /\ i.fn = "get_config"
        /\ i.config.enable_ip_whitelist = c.enable_ip_whitelist
        /\ i.config.port = c.port
        /\ Len(i.config.p12_passwords) = Len(c.p12_passwords)
        /\ Len(i.config.allowed_ips) = Len(c.allowed_ips)
        /\ Len(i.config.certificate_directories) = Len(c.certificate_directories)
        /\ \A k \in 1..Len(c.certificate_directories) :
              LET mine == c.certificate_directories[k]
                  theirs == i.config.certificate_directories[k]
              IN mine[Len(mine)] = theirs[Len(theirs)]}

\* C30: the response of GET /config is the same for every two configurations
\* that differ only in the passwords, in tls_key, in the allowed addresses or
\* in the parents of the monitored directories.
ConfigResponseHidesSecrets ==
    ret.op = "get_config" =>
       \A other \in SameButSecrets(ret.key.config) :
          get_config(other.config) = ret.value

\* GET /config has answered for a configuration of which another one differs
\* in a password, in tls_key, in an allowed address and in the parent of the
\* monitored directory.
AnsweredForConfigWithSecretTwin ==
    /\ ret.op = "get_config"
    /\ \E other \in SameButSecrets(ret.key.config) :
          /\ other.config.p12_passwords # ret.key.config.p12_passwords
          /\ other.config.tls_key # ret.key.config.tls_key
          /\ other.config.allowed_ips # ret.key.config.allowed_ips
          /\ other.config.certificate_directories # ret.key.config.certificate_directories

(***************************************************************************)
(* Claims about replacing an entry                                         *)
(***************************************************************************)
\* C31: a set that replaces the entry of its key, and whose value fits once
\* the size of the replaced entry is subtracted, evicts nothing: every key
\* stored before the call is stored after it.
ReplacingSetCountsOldSize ==
    [][(/\ ret'.op = "set"
        /\ ret'.key = last_set'.key
        /\ Serializable(last_set'.value)
        /\ HasKey(cache.memory_cache, ret'.key)
        /\ cache.current_size - Lookup(cache.memory_cache, ret'.key).size
              + SerializedSize(last_set'.value) <= max_size)
          => StoredKeys(cache) \subseteq StoredKeys(cache')]_vars

(***************************************************************************)
(* Claims about the order of the metric calls of a scan                    *)
(***************************************************************************)
\* The calls a scan has made on the metrics are in order: the reset is the
\* first call and the only reset; the calls follow the directories in the
\* order of the list; update_scan_metrics is called at most once for a
\* directory, after every other call made for it; and every certificate
\* update is followed by the update_scan_metrics of its directory.
Ordered(calls) ==
    /\ calls # <<>> => calls[1].call = "reset_scan_metrics"
    /\ \A k \in 2..Len(calls) : calls[k].call # "reset_scan_metrics"
    /\ \A j, k \in 1..Len(calls) :
          j < k => /\ calls[j].dir <= calls[k].dir
                   /\ calls[j].call = "update_scan_metrics"
                         => calls[j].dir < calls[k].dir
    /\ \A k \in 1..Len(calls) :
          calls[k].call = "update_certificate_metrics"
             => \E j \in (k + 1)..Len(calls) :
                   /\ calls[j].call = "update_scan_metrics"
                   /\ calls[j].dir = calls[k].dir

\* C32: in the scan that returned last and in every scan in progress,
\* reset_scan_metrics precedes every certificate update and every recorded
\* parse error, the directories are processed in the configured order, and the
\* update_scan_metrics of a directory follows the certificate updates of that
\* directory and precedes every call made for the next one.
MetricCallsAreOrdered ==
    /\ Ordered(scan_log.calls)
    /\ \A i \in 1..Len(coros) : coros[i].pc = "scanning" => Ordered(coros[i].sc.calls)

\* A scan has returned that recorded a parse error in the first directory
\* and updated a certificate of the second.
ScanWithErrorThenCertificate ==
    /\ scan_log.finished > 0
    /\ \E j, k \in 1..Len(scan_log.calls) :
          /\ scan_log.calls[j].call = "record_parse_error"
          /\ scan_log.calls[j].dir = 1
          /\ scan_log.calls[k].call = "update_certificate_metrics"
          /\ scan_log.calls[k].dir = 2

(***************************************************************************)
(* SpecScan: scans of a tree nobody changes, under each workers setting    *)
(***************************************************************************)
MaxWorkers == 2

\* The tree has up to three candidate files in d1 and one in d2.
ScanInit ==
    /\ cache = EmptyCache
    /\ cache_file = NoFile
    /\ cache_ready = TRUE
    /\ now = StartTime
    /\ ret = NoCall
    /\ last_set = None
    /\ config \in {[StartConfig EXCEPT !.workers = n] : n \in 1..MaxWorkers}
    /\ dirs_on_disk = {"d1", "d2"}
    /\ unreadable_dirs = {}
    /\ fs \in {[f \in Files |-> CASE f = "d1/a.pem" -> a
                                 [] f = "d1/c.pem" -> c
                                 [] f = "d1/e.pem" -> e
                                 [] OTHER -> b] :
                 a \in {CertFile(0, "s1"), JunkFile(0)},
                 c \in {CertFile(0, "s1"), CertFile(0, "s2"), AbsentFile},
                 e \in {CertFile(0, "s2"), JunkFile(0), AbsentFile},
                 b \in {CertFile(0, "s2"), AbsentFile}}
    /\ fs_ops = 0
    /\ watch_queue = <<>>
    /\ hot = [watching |-> TRUE, watched_paths |-> {"d1", "d2"}]
    /\ metrics = NewMetrics
    /\ scan_lock = [locked |-> FALSE, waiters |-> <<>>]
    /\ coros = <<Coro(LoopId, "loop", "sleeping", StartTime, "", ""),
                 Coro(HttpId, "http", "idle", 0, "", "")>>
    /\ scan_log = [started |-> 0, finished |-> 0, directories |-> <<>>,
                   calls |-> <<>>, metrics |-> NewMetrics, summary |-> NoSummary]
    /\ history = <<>>
    /\ http_scans = 0
    /\ in_sync = FALSE
    /\ temp_file = NoFile
    /\ save_call = NoSave
    /\ config_file = [content |-> config, writes |-> 0]
    /\ reloads = <<>>
    /\ app = Running

ScanNext ==
    \/ LoopScan
    \/ HttpScan
    \/ LockGranted
    \/ \E i \in 1..Len(coros), k \in 1..Len(FileOrder) : StartFile(i, k)
    \/ \E i \in 1..Len(coros), k \in 1..Len(FileOrder) : ParseFile(i, k)
    \/ \E i \in 1..Len(coros), k \in 1..Len(FileOrder) : FinishFile(i, k)
    \/ \E i \in 1..Len(coros) : ResumeScan(i)
    \/ Advance

SpecScan == ScanInit /\ [][ScanNext]_vars

\* C33: at every moment of a scan, the tasks of the directory that hold the
\* semaphore (from the cache lookup through the parse to the cache write)
\* are at most config.workers, however many candidate files there are.
InFlightAtMostWorkers ==
    \A i \in 1..Len(coros) :
        coros[i].pc = "scanning"
           => Cardinality({k \in 1..Len(coros[i].sc.tasks) :
                             coros[i].sc.tasks[k].pc \in {"parsing", "parsed"}})
                 <= config.workers

\* All permits are taken and a further file of the directory waits.
FileWaitsForTheSemaphore ==
    \E i \in 1..Len(coros) :
        /\ coros[i].pc = "scanning"
        /\ Cardinality({k \in 1..Len(coros[i].sc.tasks) :
                          coros[i].sc.tasks[k].pc \in {"parsing", "parsed"}})
              = config.workers
        /\ config.workers = MaxWorkers
        /\ \E k \in 1..Len(coros[i].sc.tasks) : coros[i].sc.tasks[k].pc = "queued"

\* The step of one file task of a running scan, from pc to next_pc.
TaskStep(i, k, pc, next_pc) ==
    /\ i \in 1..Len(coros) /\ i \in 1..Len(coros')
    /\ coros[i].pc = "scanning" /\ coros'[i].pc = "scanning"
    /\ k \in 1..Len(coros[i].sc.tasks) /\ k \in 1..Len(coros'[i].sc.tasks)
    /\ coros[i].sc.tasks[k].pc = pc
    /\ coros'[i].sc.tasks[k].pc = next_pc

\* The cache holds an entry for the path and the mtime the file has now, and
\* the entry has not expired.
LiveEntry(path) ==
    LET key == make_key("cert", path, fs[path].mtime) IN
    /\ HasKey(cache.memory_cache, key)
    /\ ~is_expired(Lookup(cache.memory_cache, key), now)

\* C34: a file task returns a cached record only when the cache holds a live
\* entry under ("cert", path, mtime) of the file, and then without parsing;
\* it goes to the executor only when there is no such entry; after the parse
\* it stores the record under the key it looked up when the parse succeeded
\* and leaves the cache untouched when it failed, so that every entry the
\* cache holds is a certificate record.
LookupThenParseThenSet ==
    [][\A i \in 1..Len(coros), k \in 1..Len(FileOrder) :
        LET task == coros[i].sc.tasks[k]
            key == make_key("cert", task.path, fs[task.path].mtime)
        IN /\ TaskStep(i, k, "queued", "done") /\ IsCert(coros'[i].sc.tasks[k].result)
                => /\ LiveEntry(task.path)
                   /\ coros'[i].sc.tasks[k].result = Lookup(cache.memory_cache, key).value
           /\ TaskStep(i, k, "queued", "done") /\ ~IsCert(coros'[i].sc.tasks[k].result)
                => ~fs[task.path].present \/ app.scanner = "stopped"
           /\ TaskStep(i, k, "queued", "parsing")
                => /\ ~LiveEntry(task.path)
                   /\ coros'[i].sc.tasks[k].key = key
           /\ TaskStep(i, k, "parsed", "done") /\ IsCert(task.result)
                => /\ HasKey(cache'.memory_cache, task.key)
                   /\ Lookup(cache'.memory_cache, task.key).value = task.result
           /\ TaskStep(i, k, "parsed", "done") /\ ~IsCert(task.result)
                => cache' = cache
           /\ \A n \in 1..Len(cache'.memory_cache) :
                 IsCert(cache'.memory_cache[n].value)]_vars

\* A scan has served one file from the cache and failed to parse another.
HitAndFailedParseInOneScan ==
    \E i \in 1..Len(coros) :
        /\ coros[i].pc = "scanning"
        /\ scan_log.finished > 0
        /\ cache.hit_count > 0
        /\ \E j, k \in 1..Len(coros[i].sc.tasks) :
              /\ coros[i].sc.tasks[j].pc = "done"
              /\ IsCert(coros[i].sc.tasks[j].result)
              /\ coros[i].sc.tasks[j].key # <<>>
              /\ coros[i].sc.tasks[k].pc = "done"
              /\ coros[i].sc.tasks[k].records > 0

\* What /metrics shows of the scan gauges and the labeled certificate series
\* once a scan has returned: get_metrics refreshes ssl_cert_duplicate_count.
Exposed(m) ==
    [certs_parsed_total |-> m.certs_parsed_total,
     parse_errors_total |-> m.parse_errors_total,
     weak_key_total |-> m.weak_key_total,
     deprecated_sigalg_total |-> m.deprecated_sigalg_total,
     duplicate_count |-> update_duplicate_metrics(m).duplicate_count,
     series |-> m.series]

\* C35: over a file tree and a configuration nobody changes, a scan_once
\* that completes after another one returns the same summary and leaves the
\* same scan gauges and the same labeled certificate series as that one.
ConsecutiveScansAgree ==
    [][(/\ scan_log.finished >= 1
        /\ scan_log'.finished = scan_log.finished + 1)
          => /\ scan_log'.summary = scan_log.summary
             /\ Exposed(scan_log'.metrics) = Exposed(scan_log.metrics)]_vars

\* The second scan has returned; it took a record from the cache, and the
\* gauges count a parsed certificate, a parse error, a weak key and a
\* duplicate serial.
SecondScanServedFromCache ==
    /\ scan_log.finished = 2
    /\ cache.hit_count > 0
    /\ scan_log.summary.total_parsed > 1
    /\ scan_log.summary.total_errors > 0
    /\ Exposed(scan_log.metrics).parse_errors_total > 0
    /\ Exposed(scan_log.metrics).weak_key_total > 0
    /\ Exposed(scan_log.metrics).duplicate_count > 0

\* The per-scan accumulators, the duplicate index and the labeled series.
PerScan(m) ==
    [current_scan_parse_errors |-> m.current_scan_parse_errors,
     current_scan_weak_keys |-> m.current_scan_weak_keys,
     current_scan_deprecated_sigalgs |-> m.current_scan_deprecated_sigalgs,
     duplicate_certificates |-> m.duplicate_certificates,
     series |-> m.series]

\* C36: while a scan_once is in progress, the per-scan accumulators, the
\* duplicate index and the labeled certificate series are modified by that
\* scan only: a step in which the scan itself does not move, such as the
\* debounced action of a certificate event, leaves them as they are.
OnlyTheScanTouchesItsMetrics ==
    [][\A i \in 1..Len(coros) :
        (/\ coros[i].pc = "scanning"
         /\ \E j \in 1..Len(coros') : /\ coros'[j].id = coros[i].id
                                      /\ coros'[j].pc = "scanning"
                                      /\ coros'[j].sc = coros[i].sc)
           => PerScan(metrics') = PerScan(metrics)]_vars

\* The debounced task of event n has cleared the labeled metrics and its
\* scan_once has not returned yet.
Rescanning(n) ==
    /\ history[n].calls = FullReload
    /\ ~history[n].cancelled
    /\ \E i \in 1..Len(coros) : coros[i].id = n /\ coros[i].pc # "done"

\* C37: once a debounced certificate action has cleared the labeled metrics,
\* its re-scan runs to completion, also when a further event for the same
\* path arrives while the re-scan is in progress: a modification of the file
\* does not end the task before its scan_once has returned.
RescanSurvivesFurtherEvents ==
    [][\A n \in 1..Len(history) :
          (/\ Rescanning(n)
           /\ Len(history') = Len(history) + 1
           /\ history'[Len(history')].event_type = "modified")
             => ~history'[n].cancelled]_vars

\* C38: the differences a configuration action has detected when it swapped
\* the snapshot are not lost when a later configuration event cancels the
\* action before it has finished: the action the event arms, which compares
\* the swapped snapshot with the file, handles every difference whose
\* invalidations or re-scan the cancelled action has not completed.
CancelledActionLosesNothing ==
    [][\A n \in 1..Len(reloads) :
          (/\ reloads[n].ended = "running"
           /\ reloads'[n].ended = "cancelled"
           /\ ~reloads'[n].must_cancel
           /\ app' = app)
             => LET r == reloads[n]
                    later == Changes(config', config_file'.content)
                IN /\ r.stage = "interval"
                        => later.dirs_added \cup later.dirs_removed # {}
                   /\ r.changes.passwords_changed /\ r.stage \in {"interval", "exclude"}
                        => later.passwords_changed
                   /\ r.changes.exclude_changed
                        => later.exclude_changed]_vars

\* C39: the restart of the observer inside a configuration action that
\* removes a directory does not cancel the task that runs the action: in a
\* step without a new configuration event and without a shutdown, an action
\* that has called stop() on the manager does not end cancelled.
RestartSparesItsOwnTask ==
    [][\A n \in 1..Len(reloads') :
          (/\ reloads'[n].must_cancel
           /\ n > Len(reloads) \/ reloads[n].ended = "running"
           /\ config_file' = config_file
           /\ app' = app)
             => reloads'[n].ended # "cancelled"]_vars

\* C40: when a scan_once returns, whoever started it, every labeled
\* certificate series that is exposed belongs to a file the scan has found
\* and parsed: a file deleted since the previous scan leaves no series.
SeriesBelongToTheScan ==
    [][scan_log'.finished = scan_log.finished + 1
          => \A series \in metrics'.series :
                \E k \in 1..Len(scan_log'.calls) :
                   /\ scan_log'.calls[k].call = "update_certificate_metrics"
                   /\ scan_log'.calls[k].path = series.path]_vars
====
